---- MODULE Spec2Model ----
(***************************************************************************)
(* The scene binary codec of the ACG loader: the in-memory scene data      *)
(* model (data_structures.py), the exporter and the reference importer     *)
(* (binary_exporter.py), modelled at the level of bytes.                    *)
(*                                                                         *)
(* Conventions.                                                            *)
(*   - A Python float is an integer number of 1e-9 units (0.5 is           *)
(*     500000000).  struct.pack('f') rounds a double to IEEE-754 binary32: *)
(*     0.8 packs to CD CC 4C 3F, which unpacks to 0.800000011920929        *)
(*     (800000012 here), not to 0.8.                                       *)
(*   - A str is a sequence of code points below 2048; bytes are 0..255.    *)
(*   - Optional[T] is a sequence of length 0 (None) or 1.                  *)
(*   - A texture slot holds a tagged Python value, [tag, v].               *)
(*   - struct formats carry no byte-order prefix, so pack and unpack use    *)
(*     the host's order; Spec runs on a little-endian host, SpecCodec on   *)
(*     either.                                                             *)
(***************************************************************************)
EXTENDS Integers, Sequences, FiniteSets, TLC

VARIABLES
    scene,      \* the SceneData handed to BinarySceneExporter.export
    file,       \* the bytes of the .acg file on disk
    damage,     \* what happened to the file after export (environment)
    result,     \* what BinarySceneImporter.load returned or raised
    pc,         \* "build", "exported", "export_failed", "loaded"
    mat,        \* a Material whose layers the caller edits
    flagsOut,   \* Optional[int]: the last value mat.get_layer_flags() returned
    byteorder,  \* sys.byteorder of the host: "little" or "big"
    handles,    \* the number of file objects that are open
    threads,    \* the export and load calls running at once, one per thread
    _loaders,   \* LoaderRegistry._loaders: extension -> loader class
    source,     \* the input file of load_scene and what its parser delivers
    call        \* the last call on the loader side: [name, args, ret, log]

\* The state of the codec, and the state of the loader side
codecVars == <<scene, file, damage, result, pc, mat, flagsOut, byteorder, handles>>

loaderVars == <<threads, _loaders, source, call>>

vars == <<codecVars, loaderVars>>

\* ---------------------------------------------------------------- bounds

\* The most records (materials, textures and meshes together) a scene holds
MaxItems == 2

\* ------------------------------------------------------------ primitives

Min(a, b) == IF a < b THEN a ELSE b

None == <<>>
Some(x) == <<x>>

PyInt(v) == [tag |-> "int", v |-> v]
PyNone == [tag |-> "None", v |-> 0]

\* A float, held in units of 1e-9; a bool, held as the int it is; a str of one
\* character, held as its code point
PyFloat(v) == [tag |-> "float", v |-> v]
PyBool(v) == [tag |-> "bool", v |-> IF v THEN 1 ELSE 0]
PyText(c) == [tag |-> "str", v |-> c]

\* flags |= bit, for bit a power of two
BitOr(flags, bit) == IF (flags \div bit) % 2 = 1 THEN flags ELSE flags + bit

BitSet(flags, i) == (flags \div (2 ^ i)) % 2 = 1

\* ------------------------------------------------------------ data model

LayerFields ==
    <<"clearcoat", "transmission", "sheen", "subsurface",
      "anisotropy", "iridescence", "volume">>

\* The primary field of each layer class; the codec and the flag calculator
\* read no other field of a layer.
ClearcoatLayer(s) == [strength |-> s]
TransmissionLayer(s) == [strength |-> s]
SheenLayer(s) == [strength |-> s]
SubsurfaceLayer(s) == [strength |-> s]
AnisotropyLayer(s) == [strength |-> s]
IridescenceLayer(s) == [strength |-> s]
VolumeLayer(d) == [density |-> d]

MaterialDefaults ==
    [ base_color |-> <<800000000, 800000000, 800000000>>,
      metallic |-> 0,
      emission |-> <<0, 0, 0>>,
      roughness |-> 500000000,
      ior |-> 1500000000,
      opacity |-> 1000000000,
      layer_flags |-> 0,
      extended_data_index |-> 0,
      base_color_texture |-> PyInt(-1),
      normal_texture |-> PyInt(-1),
      metallic_roughness_texture |-> PyInt(-1),
      emission_texture |-> PyInt(-1),
      clearcoat |-> None,
      transmission |-> None,
      sheen |-> None,
      subsurface |-> None,
      anisotropy |-> None,
      iridescence |-> None,
      volume |-> None ]

\* Material.__init__ as the dataclass generates it: name has no default, so a
\* call without it raises TypeError; every other field has one.
MaterialInit(kwargs) ==
    IF "name" \notin DOMAIN kwargs
    THEN [err |-> "TypeError", val |-> None]
    ELSE [err |-> "",
          val |-> Some([f \in DOMAIN MaterialDefaults \cup {"name"} |->
                          IF f \in DOMAIN kwargs THEN kwargs[f]
                          ELSE MaterialDefaults[f]])]

\* Mesh.__init__: name, vertices and indices have no default.
MeshInit(kwargs) ==
    IF ~({"name", "vertices", "indices"} \subseteq DOMAIN kwargs)
    THEN [err |-> "TypeError", val |-> None]
    ELSE [err |-> "",
          val |-> Some([f \in {"name", "vertices", "indices", "material_index"} |->
                          IF f \in DOMAIN kwargs THEN kwargs[f] ELSE 0])]

Vertex(position, normal, texcoord, tangent) ==
    [position |-> position, normal |-> normal,
     texcoord |-> texcoord, tangent |-> tangent]

\* A texture list entry is a Texture object or, as the importer builds it, a
\* plain str; cls tells them apart (hasattr(texture, 'path')).
Texture(path) == [cls |-> "Texture", path |-> path, width |-> 0, height |-> 0]

PyStr(s) == [cls |-> "str", path |-> s, width |-> 0, height |-> 0]

SceneData == [meshes |-> <<>>, materials |-> <<>>, textures |-> <<>>]

\* Python truthiness of an Optional layer: a dataclass instance is always
\* true, None is false.
Truthy(layer) == layer # None

\* get_layer_flags taking a layer that is present for one that is active
get_layer_flags_present(self) ==
    LET f1 == IF Truthy(self.clearcoat) THEN 2 ^ 0 ELSE 0
        f2 == IF Truthy(self.transmission) THEN f1 + 2 ^ 1 ELSE f1
        f3 == IF Truthy(self.sheen) THEN f2 + 2 ^ 2 ELSE f2
        f4 == IF Truthy(self.subsurface) THEN f3 + 2 ^ 3 ELSE f3
        f5 == IF Truthy(self.anisotropy) THEN f4 + 2 ^ 4 ELSE f4
        f6 == IF Truthy(self.iridescence) THEN f5 + 2 ^ 5 ELSE f5
    IN IF Truthy(self.volume) THEN f6 + 2 ^ 6 ELSE f6

\* Material.get_layer_flags
get_layer_flags(self) ==
    LET f0 == 0
        f1 == IF Truthy(self.clearcoat) /\ self.clearcoat[1].strength > 0
              THEN BitOr(f0, 2 ^ 0) ELSE f0
        f2 == IF Truthy(self.transmission) /\ self.transmission[1].strength > 0
              THEN BitOr(f1, 2 ^ 1) ELSE f1
        f3 == IF Truthy(self.sheen) /\ self.sheen[1].strength > 0
              THEN BitOr(f2, 2 ^ 2) ELSE f2
        f4 == IF Truthy(self.subsurface) /\ self.subsurface[1].strength > 0
              THEN BitOr(f3, 2 ^ 3) ELSE f3
        f5 == IF Truthy(self.anisotropy) /\ self.anisotropy[1].strength > 0
              THEN BitOr(f4, 2 ^ 4) ELSE f4
        f6 == IF Truthy(self.iridescence) /\ self.iridescence[1].strength > 0
              THEN BitOr(f5, 2 ^ 5) ELSE f5
        f7 == IF Truthy(self.volume) /\ self.volume[1].density > 0
              THEN BitOr(f6, 2 ^ 6) ELSE f6
    IN f7

\* ---------------------------------------------------------- struct, utf-8

Ok(bytes) == [err |-> "", out |-> bytes]

Raise(e) == [err |-> e, out |-> <<>>]

\* f.write(a); f.write(b): what a wrote stays in the file when b raises
Then(a, b) ==
    LET x == a
    IN IF x.err # "" THEN x
       ELSE LET y == b IN [err |-> y.err, out |-> x.out \o y.out]

LittleEndian(v) ==
    <<v % 256, (v \div 256) % 256, (v \div 65536) % 256, (v \div 16777216) % 256>>

\* Four bytes in the order of the host: the formats 'I', 'i' and 'f' carry
\* no byte-order character, so struct uses native order
Native(b) == IF byteorder = "little" THEN b ELSE <<b[4], b[3], b[2], b[1]>>

\* struct.pack('I', v): an unsigned 32-bit integer in host order
pack_I(v) == IF v < 0 THEN Raise("struct.error") ELSE Ok(Native(LittleEndian(v)))

\* The two's complement of a signed 32-bit integer, least byte first
TwosComplement(v) ==
    IF v >= 0 THEN LittleEndian(v)
    ELSE LET w == LittleEndian(v + 2147483647 + 1)
         IN <<w[1], w[2], w[3], w[4] + 128>>

\* struct.pack('i', v)
pack_i(v) == Ok(Native(TwosComplement(v)))

\* The binary32 encodings of the floats the model uses (value -> bytes).
F32Table ==
    { <<0, <<0, 0, 0, 0>> >>,
      <<100000001, <<205, 204, 204, 61>> >>,
      <<250000000, <<0, 0, 128, 62>> >>,
      <<500000000, <<0, 0, 0, 63>> >>,
      <<666666687, <<171, 170, 42, 63>> >>,
      <<800000012, <<205, 204, 76, 63>> >>,
      <<899999976, <<102, 102, 102, 63>> >>,
      <<1000000000, <<0, 0, 128, 63>> >>,
      <<1500000000, <<0, 0, 192, 63>> >>,
      <<-500000000, <<0, 0, 0, 191>> >> }

\* Rounding a double to the nearest binary32
RoundF32(x) ==
    CASE x = 100000000 -> 100000001
      [] x = 666666666 -> 666666687
      [] x = 800000000 -> 800000012
      [] x = 900000000 -> 899999976
      [] OTHER -> x

\* struct.pack('f', x)
pack_f(x) == Ok(Native((CHOOSE e \in F32Table : e[1] = RoundF32(x))[2]))

\* The unsigned value of four bytes, least byte first
U32(b) ==
    IF b[4] >= 128 THEN 2147483647
    ELSE b[1] + 256 * b[2] + 65536 * b[3] + 16777216 * b[4]

\* The signed value of four bytes, least byte first
S32(b) ==
    IF b[4] >= 128
    THEN b[1] + 256 * b[2] + 65536 * b[3] + 16777216 * (b[4] - 256)
    ELSE b[1] + 256 * b[2] + 65536 * b[3] + 16777216 * b[4]

\* struct.unpack('I', b)[0] for a 4-byte b.  A value of 2^31 or more is
\* held as 2^31 - 1: as a count or a length it exceeds any file of the model.
unpack_I(b) == U32(Native(b))

\* struct.unpack('i', b)[0]
unpack_i(b) == S32(Native(b))

\* struct.unpack('f', b)[0]; a pattern outside the table is some other float
unpack_f(b) ==
    IF \E e \in F32Table : e[2] = Native(b)
    THEN (CHOOSE e \in F32Table : e[2] = Native(b))[1]
    ELSE -2000000000

\* str.encode('utf-8') for code points below 2048
RECURSIVE encode_utf8(_)
encode_utf8(s) ==
    IF s = <<>> THEN <<>>
    ELSE LET c == Head(s)
         IN (IF c < 128 THEN <<c>> ELSE <<192 + (c \div 64), 128 + (c % 64)>>)
            \o encode_utf8(Tail(s))

\* bytes.decode('utf-8'): [err, val]; sequences of one and two bytes
RECURSIVE decode_utf8(_)
decode_utf8(b) ==
    IF b = <<>> THEN [err |-> "", val |-> <<>>]
    ELSE IF b[1] < 128
    THEN LET r == decode_utf8(Tail(b))
         IN [err |-> r.err, val |-> <<b[1]>> \o r.val]
    ELSE IF b[1] >= 194 /\ b[1] <= 223 /\ Len(b) >= 2 /\ b[2] >= 128 /\ b[2] <= 191
    THEN LET r == decode_utf8(Tail(Tail(b)))
         IN [err |-> r.err, val |-> <<(b[1] - 192) * 64 + (b[2] - 128)>> \o r.val]
    ELSE [err |-> "UnicodeDecodeError", val |-> <<>>]

\* ---------------------------------------------------------------- encoder

MAGIC == <<65, 67, 71, 83>>

VERSION == 1

RECURSIVE pack_floats(_)
\* struct.pack('<n>f', *xs)
pack_floats(xs) ==
    IF xs = <<>> THEN Ok(<<>>) ELSE Then(pack_f(Head(xs)), pack_floats(Tail(xs)))

RECURSIVE pack_Is(_)
\* struct.pack('<n>I', *xs): nothing is produced when one value is rejected
pack_Is(xs) ==
    IF xs = <<>> THEN Ok(<<>>)
    ELSE LET a == pack_I(Head(xs))
             b == pack_Is(Tail(xs))
         IN IF a.err # "" THEN a ELSE IF b.err # "" THEN b ELSE Ok(a.out \o b.out)

\* BinarySceneExporter._write_header
_write_header == Then(Ok(MAGIC), pack_I(VERSION))

\* val == -1 for a value of any type: an int or a float (held in units of
\* 1e-9) can equal -1; True is 1, False is 0, and a str equals no number
PyEqualsMinusOne(val) ==
    \/ val.tag = "int" /\ val.v = -1
    \/ val.tag = "float" /\ val.v = -1000000000

\* int(val) of an int, a bool or a finite float: a float is truncated toward
\* zero
PyIntOf(val) ==
    IF val.tag = "float"
    THEN IF val.v >= 0 THEN val.v \div 1000000000
         ELSE 0 - ((0 - val.v) \div 1000000000)
    ELSE val.v

\* to_texture_index treating a slot without a texture as the first texture
to_texture_index_zero_for_none(val) ==
    IF val.tag = "None" THEN 0
    ELSE IF PyEqualsMinusOne(val) THEN -1
    ELSE IF val.tag \in {"int", "bool", "float"} THEN PyIntOf(val)
    ELSE -1

\* to_texture_index, the local function of _write_materials
to_texture_index(val) ==
    IF val.tag = "None" \/ PyEqualsMinusOne(val) THEN -1
    ELSE IF val.tag \in {"int", "bool", "float"} THEN PyIntOf(val)
    ELSE -1

\* The layer flags _write_materials computes
ExporterFlags(m) ==
    LET f0 == 0
        f1 == IF Truthy(m.transmission) THEN BitOr(f0, 1) ELSE f0
        f2 == IF Truthy(m.clearcoat) THEN BitOr(f1, 2) ELSE f1
        f3 == IF Truthy(m.sheen) THEN BitOr(f2, 4) ELSE f2
    IN f3

\* Whether _write_materials writes the extension block of a material
WritesTransmissionBlock(m) == Truthy(m.transmission)

\* An extension block that carries the Clearcoat layer too
TransmissionBlock_and_clearcoat(m) ==
    Then(IF WritesTransmissionBlock(m)
         THEN pack_floats(<<m.transmission[1].strength, m.ior>>)
         ELSE Ok(<<>>),
         IF Truthy(m.clearcoat)
         THEN pack_f(m.clearcoat[1].strength)
         ELSE Ok(<<>>))

\* The extension block of a material
TransmissionBlock(m) ==
    IF WritesTransmissionBlock(m)
    THEN pack_floats(<<m.transmission[1].strength, m.ior>>)
    ELSE Ok(<<>>)

\* One iteration of the loop of _write_materials, up to the flags
MaterialBase(m) ==
    LET name_bytes == encode_utf8(m.name)
        tex == <<to_texture_index(m.base_color_texture),
                 to_texture_index(m.normal_texture),
                 to_texture_index(m.metallic_roughness_texture),
                 to_texture_index(m.emission_texture)>>
    IN Then(pack_I(Len(name_bytes)),
       Then(Ok(name_bytes),
       Then(pack_floats(m.base_color),
       Then(pack_floats(m.emission),
       Then(pack_f(m.metallic),
       Then(pack_f(m.roughness),
       Then(pack_f(m.ior),
       Then(pack_f(m.opacity),
       Then(pack_i(tex[1]), Then(pack_i(tex[2]),
       Then(pack_i(tex[3]), pack_i(tex[4]))))))))))))

\* One iteration of the loop of _write_materials
MaterialRecord(m) ==
    Then(MaterialBase(m), Then(pack_I(ExporterFlags(m)), TransmissionBlock(m)))

RECURSIVE MaterialRecords(_)
MaterialRecords(materials) ==
    IF materials = <<>> THEN Ok(<<>>)
    ELSE Then(MaterialRecord(Head(materials)), MaterialRecords(Tail(materials)))

\* BinarySceneExporter._write_materials
_write_materials(materials) ==
    Then(pack_I(Len(materials)), MaterialRecords(materials))

TextureRecord(texture) ==
    LET tex_path == texture.path
        path_bytes == encode_utf8(tex_path)
    IN Then(pack_I(Len(path_bytes)), Ok(path_bytes))

RECURSIVE TextureRecords(_)
TextureRecords(textures) ==
    IF textures = <<>> THEN Ok(<<>>)
    ELSE Then(TextureRecord(Head(textures)), TextureRecords(Tail(textures)))

\* BinarySceneExporter._write_textures
_write_textures(textures) ==
    Then(pack_I(Len(textures)), TextureRecords(textures))

\* A vertex written as a 16-byte aligned struct: 4 bytes of padding after
\* the texcoord
VertexRecord_padded(v) ==
    Then(pack_floats(v.position),
    Then(pack_floats(v.normal),
    Then(pack_floats(v.texcoord),
    Then(Ok(<<0, 0, 0, 0>>), pack_floats(v.tangent)))))

VertexRecord(v) ==
    Then(pack_floats(v.position),
    Then(pack_floats(v.normal),
    Then(pack_floats(v.texcoord), pack_floats(v.tangent))))

RECURSIVE VertexRecords(_)
VertexRecords(vertices) ==
    IF vertices = <<>> THEN Ok(<<>>)
    ELSE Then(VertexRecord(Head(vertices)), VertexRecords(Tail(vertices)))

MeshRecord(mesh) ==
    LET name_bytes == encode_utf8(mesh.name)
    IN Then(pack_I(Len(name_bytes)),
       Then(Ok(name_bytes),
       Then(pack_I(mesh.material_index),
       Then(pack_I(Len(mesh.vertices)),
       Then(VertexRecords(mesh.vertices),
       Then(pack_I(Len(mesh.indices)), pack_Is(mesh.indices)))))))

RECURSIVE MeshRecords(_)
MeshRecords(meshes) ==
    IF meshes = <<>> THEN Ok(<<>>)
    ELSE Then(MeshRecord(Head(meshes)), MeshRecords(Tail(meshes)))

\* BinarySceneExporter._write_meshes
_write_meshes(meshes) == Then(pack_I(Len(meshes)), MeshRecords(meshes))

\* export writing the meshes before the textures
export_meshes_first(s) ==
    Then(_write_header,
    Then(_write_materials(s.materials),
    Then(_write_meshes(s.meshes), _write_textures(s.textures))))

\* BinarySceneExporter.export: [err, out], out the bytes in the file when the
\* with block is left
export(s) ==
    Then(_write_header,
    Then(_write_materials(s.materials),
    Then(_write_textures(s.textures), _write_meshes(s.meshes))))

\* ---------------------------------------------------------------- decoder

\* A reader step gives [err, pos, short, val]: the exception raised ("" for
\* none), the cursor after it, whether some f.read(n) so far returned fewer
\* than n bytes, and the value read.
Got(pos, short, val) == [err |-> "", pos |-> pos, short |-> short, val |-> val]

Fail(e, pos, short) == [err |-> e, pos |-> pos, short |-> short, val |-> None]

\* f.read(n) at cursor pos: at most n bytes, fewer at the end of the file
f_read(bytes, pos, n) ==
    IF n >= Len(bytes) - pos THEN SubSeq(bytes, pos + 1, Len(bytes))
    ELSE SubSeq(bytes, pos + 1, pos + n)

\* A read of an integer that takes the bytes it got, like int.from_bytes:
\* nothing read gives 0
read_I_lenient(bytes, pos, short) ==
    LET b == f_read(bytes, pos, 4)
    IN Got(pos + Len(b), short \/ Len(b) < 4,
           IF Len(b) = 4 THEN unpack_I(b) ELSE 0)

\* struct.unpack('I', f.read(4))[0]
read_I(bytes, pos, short) ==
    LET b == f_read(bytes, pos, 4)
    IN IF Len(b) # 4 THEN Fail("struct.error", pos + Len(b), TRUE)
       ELSE Got(pos + 4, short, unpack_I(b))

RECURSIVE unpack_floats(_)
unpack_floats(b) ==
    IF b = <<>> THEN <<>>
    ELSE <<unpack_f(SubSeq(b, 1, 4))>> \o unpack_floats(SubSeq(b, 5, Len(b)))

\* struct.unpack('<n>f', f.read(4 * n))
read_floats(bytes, pos, short, n) ==
    LET b == f_read(bytes, pos, 4 * n)
    IN IF Len(b) # 4 * n THEN Fail("struct.error", pos + Len(b), TRUE)
       ELSE Got(pos + 4 * n, short, unpack_floats(b))

RECURSIVE unpack_ints(_, _)
\* signed selects format 'i' over 'I'
unpack_ints(b, signed) ==
    IF b = <<>> THEN <<>>
    ELSE <<IF signed THEN unpack_i(SubSeq(b, 1, 4)) ELSE unpack_I(SubSeq(b, 1, 4))>>
         \o unpack_ints(SubSeq(b, 5, Len(b)), signed)

\* struct.unpack('<n>i' or '<n>I', f.read(4 * n)); a count above the file's
\* length asks for more bytes than the file holds whatever its value
read_ints(bytes, pos, short, n, signed) ==
    LET want == IF n > Len(bytes) THEN 4 * (Len(bytes) + 1) ELSE 4 * n
        b == f_read(bytes, pos, want)
    IN IF Len(b) # want THEN Fail("struct.error", pos + Len(b), TRUE)
       ELSE Got(pos + want, short, unpack_ints(b, signed))

\* try: r; then K(r) unless r raised
Bind(r, K(_)) == IF r.err # "" THEN r ELSE K(r)

\* f.read(length).decode('utf-8') after the length l was read
read_bytes_decode(bytes, l) ==
    LET b == f_read(bytes, l.pos, l.val)
        d == decode_utf8(b)
    IN IF d.err # "" THEN Fail(d.err, l.pos + Len(b), l.short \/ Len(b) < l.val)
       ELSE Got(l.pos + Len(b), l.short \/ Len(b) < l.val, d.val)

\* A length, then a str of that many bytes
read_str(bytes, pos, short) ==
    Bind(read_I(bytes, pos, short), LAMBDA l : read_bytes_decode(bytes, l))

\* Material() or Mesh() at the head of a loop body: the cursor does not move
Construct(init, pos, short) ==
    IF init.err # "" THEN Fail(init.err, pos, short) ELSE Got(pos, short, init.val[1])

\* The body of the loop of _read_materials
read_material(bytes, pos, short) ==
    Bind(Construct(MaterialInit(<<>>), pos, short), LAMBDA mat0 :
    Bind(read_str(bytes, pos, short), LAMBDA name :
    Bind(read_floats(bytes, name.pos, name.short, 3), LAMBDA base_color :
    Bind(read_floats(bytes, base_color.pos, base_color.short, 3), LAMBDA emission :
    Bind(read_floats(bytes, emission.pos, emission.short, 4), LAMBDA pbr :
    Bind(read_ints(bytes, pbr.pos, pbr.short, 4, TRUE), LAMBDA tex_indices :
    Bind(read_I(bytes, tex_indices.pos, tex_indices.short), LAMBDA flags :
       Got(flags.pos, flags.short,
           [mat0.val EXCEPT
              !.name = name.val,
              !.base_color = base_color.val,
              !.emission = emission.val,
              !.metallic = pbr.val[1],
              !.roughness = pbr.val[2],
              !.ior = pbr.val[3],
              !.opacity = pbr.val[4],
              !.base_color_texture =
                  IF tex_indices.val[1] >= 0 THEN PyInt(tex_indices.val[1])
                  ELSE PyNone]))))))))

RECURSIVE read_material_loop(_, _, _, _, _)
read_material_loop(bytes, pos, short, count, materials) ==
    IF count = 0 THEN Got(pos, short, materials)
    ELSE Bind(read_material(bytes, pos, short), LAMBDA m :
            read_material_loop(bytes, m.pos, m.short, count - 1,
                               Append(materials, m.val)))

\* BinarySceneImporter._read_materials
_read_materials(bytes, pos, short) ==
    Bind(read_I(bytes, pos, short), LAMBDA count :
       read_material_loop(bytes, count.pos, count.short, count.val, <<>>))

RECURSIVE read_texture_loop(_, _, _, _, _)
read_texture_loop(bytes, pos, short, count, textures) ==
    IF count = 0 THEN Got(pos, short, textures)
    ELSE Bind(read_str(bytes, pos, short), LAMBDA path :
            read_texture_loop(bytes, path.pos, path.short, count - 1,
                              Append(textures, PyStr(path.val))))

\* BinarySceneImporter._read_textures
_read_textures(bytes, pos, short) ==
    Bind(read_I(bytes, pos, short), LAMBDA count :
       read_texture_loop(bytes, count.pos, count.short, count.val, <<>>))

\* The inner loop of _read_meshes
RECURSIVE read_vertex_loop(_, _, _, _, _)
read_vertex_loop(bytes, pos, short, count, vertices) ==
    IF count = 0 THEN Got(pos, short, vertices)
    ELSE Bind(read_floats(bytes, pos, short, 3), LAMBDA position :
         Bind(read_floats(bytes, position.pos, position.short, 3), LAMBDA normal :
         Bind(read_floats(bytes, normal.pos, normal.short, 2), LAMBDA texcoord :
         Bind(read_floats(bytes, texcoord.pos, texcoord.short, 3), LAMBDA tangent :
            read_vertex_loop(bytes, tangent.pos, tangent.short, count - 1,
                Append(vertices, Vertex(position.val, normal.val,
                                        texcoord.val, tangent.val)))))))

\* The body of the outer loop of _read_meshes
read_mesh(bytes, pos, short) ==
    Bind(Construct(MeshInit(<<>>), pos, short), LAMBDA mesh0 :
    Bind(read_str(bytes, pos, short), LAMBDA name :
    Bind(read_I(bytes, name.pos, name.short), LAMBDA material_index :
    Bind(read_I(bytes, material_index.pos, material_index.short), LAMBDA vert_count :
    Bind(read_vertex_loop(bytes, vert_count.pos, vert_count.short,
                          vert_count.val, mesh0.val.vertices), LAMBDA vertices :
    Bind(read_I(bytes, vertices.pos, vertices.short), LAMBDA idx_count :
    Bind(read_ints(bytes, idx_count.pos, idx_count.short,
                   idx_count.val, FALSE), LAMBDA indices :
       Got(indices.pos, indices.short,
           [mesh0.val EXCEPT
              !.name = name.val,
              !.material_index = material_index.val,
              !.vertices = vertices.val,
              !.indices = indices.val]))))))))

RECURSIVE read_mesh_loop(_, _, _, _, _)
read_mesh_loop(bytes, pos, short, count, meshes) ==
    IF count = 0 THEN Got(pos, short, meshes)
    ELSE Bind(read_mesh(bytes, pos, short), LAMBDA m :
            read_mesh_loop(bytes, m.pos, m.short, count - 1,
                           Append(meshes, m.val)))

\* BinarySceneImporter._read_meshes
_read_meshes(bytes, pos, short) ==
    Bind(read_I(bytes, pos, short), LAMBDA count :
       read_mesh_loop(bytes, count.pos, count.short, count.val, <<>>))

\* What load gives: the exception or "" in err, the section it stopped in
\* (at), the cursor, the short-read flag, and the Scene it returned, if any.
Loaded(err, at, r, val) ==
    [err |-> err, at |-> at, pos |-> r.pos, short |-> r.short, val |-> val]

\* A section of load: an exception in it leaves load
Section(at, r, K(_)) == IF r.err # "" THEN Loaded(r.err, at, r, None) ELSE K(r)

\* The magic of a file: f.read(4) at the start
read_magic(bytes) ==
    LET magic == f_read(bytes, 0, 4)
    IN Got(Len(magic), Len(magic) < 4, magic)

\* load checking the version first and the magic after it
load_version_first(bytes) ==
    Section("magic", read_magic(bytes), LAMBDA magic :
    Section("version", read_I(bytes, magic.pos, magic.short), LAMBDA version :
    IF version.val # VERSION
    THEN Loaded("ValueError: Unsupported version", "version", version, None) ELSE
    IF magic.val # MAGIC
    THEN Loaded("ValueError: Invalid file format", "magic", magic, None) ELSE
    Section("materials", _read_materials(bytes, version.pos, version.short),
            LAMBDA materials :
    Section("textures", _read_textures(bytes, materials.pos, materials.short),
            LAMBDA textures :
    Section("meshes", _read_meshes(bytes, textures.pos, textures.short),
            LAMBDA meshes :
       Loaded("", "done", meshes,
              Some([meshes |-> meshes.val, materials |-> materials.val,
                    textures |-> textures.val])))))))

\* BinarySceneImporter.load on a file holding bytes
load(bytes) ==
    Section("magic", read_magic(bytes), LAMBDA magic :
    IF magic.val # MAGIC
    THEN Loaded("ValueError: Invalid file format", "magic", magic, None) ELSE
    Section("version", read_I(bytes, magic.pos, magic.short), LAMBDA version :
    IF version.val # VERSION
    THEN Loaded("ValueError: Unsupported version", "version", version, None) ELSE
    Section("materials", _read_materials(bytes, version.pos, version.short),
            LAMBDA materials :
    Section("textures", _read_textures(bytes, materials.pos, materials.short),
            LAMBDA textures :
    Section("meshes", _read_meshes(bytes, textures.pos, textures.short),
            LAMBDA meshes :
       Loaded("", "done", meshes,
              Some([meshes |-> meshes.val, materials |-> materials.val,
                    textures |-> textures.val])))))))

\* ------------------------------------------------------------ file layout

\* Offsets in the file export writes for scene s (header, then the counted
\* sections in the order of export)
HeaderLen == Len(_write_header.out)

MaterialStart(s, i) ==
    HeaderLen + 4 + Len(MaterialRecords(SubSeq(s.materials, 1, i - 1)).out)

FlagsOffset(s, i) == MaterialStart(s, i) + Len(MaterialBase(s.materials[i]).out)

TexturesStart(s) == HeaderLen + Len(_write_materials(s.materials).out)

TextureStart(s, i) ==
    TexturesStart(s) + 4 + Len(TextureRecords(SubSeq(s.textures, 1, i - 1)).out)

MeshesStart(s) == TexturesStart(s) + Len(_write_textures(s.textures).out)

MeshStart(s, i) ==
    MeshesStart(s) + 4 + Len(MeshRecords(SubSeq(s.meshes, 1, i - 1)).out)

VertexCountOffset(s, i) ==
    MeshStart(s, i) + 4 + Len(encode_utf8(s.meshes[i].name)) + 4

IndexCountOffset(s, i) ==
    VertexCountOffset(s, i) + 4 + Len(VertexRecords(s.meshes[i].vertices).out)

\* The offsets of the counts and lengths of the file
FieldOffsets(s) ==
    {HeaderLen, TexturesStart(s), MeshesStart(s)}
    \cup {MaterialStart(s, i) : i \in 1..Len(s.materials)}
    \cup {TextureStart(s, i) : i \in 1..Len(s.textures)}
    \cup {MeshStart(s, i) : i \in 1..Len(s.meshes)}
    \cup {VertexCountOffset(s, i) : i \in 1..Len(s.meshes)}
    \cup {IndexCountOffset(s, i) : i \in 1..Len(s.meshes)}

\* bytes with the four bytes at offset off replaced by b4
Patch(bytes, off, b4) ==
    [i \in 1..Len(bytes) |->
        IF i > off /\ i <= off + 4 THEN b4[i - off] ELSE bytes[i]]

\* ------------------------------------------------------------ the inputs

Name_a == <<97>>

\* The name validate_scene gives the material it adds
Name_Default == <<68, 101, 102, 97, 117, 108, 116>>

\* Material(name=...) with the given fields set
Material(kwargs) == MaterialInit(kwargs).val[1]

MaterialSet ==
    { Material([name |-> Name_a]),
      Material([name |-> <<103>>,
                transmission |-> Some(TransmissionLayer(500000000)),
                base_color_texture |-> PyInt(0)]),
      Material([name |-> <<122>>,
                transmission |-> Some(TransmissionLayer(0)),
                clearcoat |-> Some(ClearcoatLayer(500000000))]),
      Material([name |-> <<99, 233>>,
                sheen |-> Some(SheenLayer(250000000)),
                volume |-> Some(VolumeLayer(500000000)),
                normal_texture |-> PyInt(0),
                emission_texture |-> PyInt(1)]) }

TextureSet == { Texture(<<116>>), Texture(<<233, 46>>) }

Mesh(kwargs) == MeshInit(kwargs).val[1]

MeshSet ==
    { Mesh([name |-> <<109>>, vertices |-> <<>>, indices |-> <<>>]),
      Mesh([name |-> <<113>>,
            vertices |-> <<Vertex(<<0, 500000000, 1000000000>>,
                                  <<0, 0, 1000000000>>,
                                  <<250000000, 500000000>>,
                                  <<0, 0, 0>>)>>,
            indices |-> <<0, 0, 0>>]) }

BadMagics == { <<88, 88, 88, 88>>, <<65, 67, 71, 84>> }

OtherVersions == { 0, 2, 999 }

InflateBy == { 1, 8 }

StrengthSet == { -500000000, 0, 500000000 }

\* ---------------------------------------------------- the loader registry

\* str.lower() on the code points of a path: A..Z become a..z
lower(s) == [i \in 1..Len(s) |-> IF s[i] >= 65 /\ s[i] <= 90 THEN s[i] + 32 ELSE s[i]]

RECURSIVE rfind(_, _)
\* The last position of code point c in s, 0 when s holds none
rfind(s, c) ==
    IF s = <<>> THEN 0
    ELSE IF s[Len(s)] = c THEN Len(s)
    ELSE rfind(SubSeq(s, 1, Len(s) - 1), c)

\* Path(filepath).name: what follows the last '/'
PathName(filepath) == SubSeq(filepath, rfind(filepath, 47) + 1, Len(filepath))

\* Path(filepath).suffix: from the last '.' of the name, unless that dot
\* opens or closes the name
PathSuffix(filepath) ==
    LET name == PathName(filepath)
        i == rfind(name, 46)
    IN IF i > 1 /\ i < Len(name) THEN SubSeq(name, i, Len(name)) ELSE <<>>

\* cls._loaders[key] = value on a dict held as a function
SetItem(d, key, value) ==
    [k \in DOMAIN d \cup {key} |-> IF k = key THEN value ELSE d[k]]

RECURSIVE register_keep_first(_, _, _)
\* A decorator that keeps the loader an extension already has (setdefault)
register_keep_first(loaders, extensions, loader_class) ==
    IF extensions = <<>> THEN loaders
    ELSE LET ext_lower == lower(Head(extensions))
         IN register_keep_first(
                IF ext_lower \in DOMAIN loaders THEN loaders
                ELSE SetItem(loaders, ext_lower, loader_class),
                Tail(extensions), loader_class)

RECURSIVE register(_, _, _)
\* The loop of the decorator LoaderRegistry.register(*extensions) builds,
\* applied to loader_class: the dict after it
register(loaders, extensions, loader_class) ==
    IF extensions = <<>> THEN loaders
    ELSE register(SetItem(loaders, lower(Head(extensions)), loader_class),
                  Tail(extensions), loader_class)

LogOverwriting == "warning: Overwriting existing loader"

LogNoLoaderRegistered == "error: No loader registered for extension"

LogSupported == "info: Supported extensions"

RECURSIVE register_log(_, _, _)
\* What the decorator logs at the level the module sets (INFO): a warning
\* for each extension that had a loader
register_log(loaders, extensions, loader_class) ==
    IF extensions = <<>> THEN <<>>
    ELSE (IF lower(Head(extensions)) \in DOMAIN loaders
          THEN <<LogOverwriting>> ELSE <<>>)
         \o register_log(SetItem(loaders, lower(Head(extensions)), loader_class),
                         Tail(extensions), loader_class)

\* LoaderRegistry.get_loader: Optional[class]
get_loader(loaders, filepath) ==
    LET ext == lower(PathSuffix(filepath))
    IN IF ext \in DOMAIN loaders THEN Some(loaders[ext]) ELSE None

Ext_obj == <<46, 111, 98, 106>>

Ext_mtl == <<46, 109, 116, 108>>

Ext_blend == <<46, 98, 108, 101, 110, 100>>

\* The registry once main.py has imported wavefront_loader
Imported == register(<<>>, <<Ext_obj, Ext_mtl>>, "WavefrontLoader")

\* The registry when bpy is installed and bpy_loader registered its class
ImportedWithBpy == register(Imported, <<Ext_blend>>, "BlenderLoader")

\* No call was made yet
NoCall == [name |-> "", args |-> <<>>, ret |-> None, log |-> <<>>]

\* No input file was named yet
NoSource == [path |-> <<>>, exists |-> FALSE]

\* ------------------------------------------------------ the layer classes

White == <<1000000000, 1000000000, 1000000000>>

\* The fields of the layer dataclasses the loaders construct, with their
\* defaults
LayerDefaults(cls) ==
    CASE cls = "ClearcoatLayer" ->
            [strength |-> 0, roughness |-> 0, ior |-> 1500000000,
             texture_index |-> -1, color |-> White, padding |-> 0]
      [] cls = "TransmissionLayer" ->
            [strength |-> 0, roughness |-> 0, depth |-> 0,
             texture_index |-> -1, color |-> White, padding |-> 0]
      [] cls = "SheenLayer" ->
            [strength |-> 0, roughness |-> 0, tint |-> 0,
             texture_index |-> -1, color |-> White, padding |-> 0]
      [] cls = "SubsurfaceLayer" ->
            [strength |-> 0, radius |-> 1000000000, scale |-> 1000000000,
             texture_index |-> -1, color |-> White, padding |-> 0]
      [] cls = "AnisotropyLayer" ->
            [strength |-> 0, rotation |-> 0, padding0 |-> 0,
             texture_index |-> -1, tangent |-> <<1000000000, 0, 0>>,
             padding1 |-> 0]

\* cls(**kwargs) as the dataclass generates __init__: a keyword that names
\* no field raises TypeError
LayerInit(cls, kwargs) ==
    IF ~(DOMAIN kwargs \subseteq DOMAIN LayerDefaults(cls))
    THEN [err |-> "TypeError", val |-> None]
    ELSE [err |-> "",
          val |-> Some([f \in DOMAIN LayerDefaults(cls) |->
                          IF f \in DOMAIN kwargs THEN kwargs[f]
                          ELSE LayerDefaults(cls)[f]])]

\* ---------------------------------------------------- the Wavefront loader

\* What pywavefront delivers for one material of the OBJ file, an entry of
\* wavefront_scene.materials.  An attribute the object lacks, or one that is
\* falsy, is None; shininess (Ns) is a whole number; vertex_format is the
\* list of its components, each a letter and a size ("T2F_N3F_V3F" is
\* <<T 2, N 3, V 3>>).
WfMaterial(name) ==
    [name |-> name,
     illumination_model |-> 2,
     diffuse |-> None,
     specular |-> None,
     shininess |-> None,
     emissive |-> None,
     transparency |-> None,
     optical_density |-> None,
     texture |-> None,
     texture_normal |-> None,
     texture_metallic |-> None,
     texture_emission |-> None,
     vertices |-> <<>>,
     vertex_format |-> <<>>]

\* (2.0 / (shininess + 2.0)) ** 0.5 where the root is exact
PhongRoughness(shininess) ==
    CASE shininess = 6 -> 500000000
      [] shininess = 30 -> 250000000

\* sum(mat.specular[:3]) / 3.0
spec_intensity(wmat) ==
    (wmat.specular[1][1] + wmat.specular[1][2] + wmat.specular[1][3]) \div 3

\* material.roughness after the shininess conversion
wf_roughness(wmat) ==
    IF wmat.illumination_model = 5 THEN 0
    ELSE IF ~(wmat.specular # None /\ spec_intensity(wmat) > 10000000) THEN 1000000000
    ELSE IF wmat.shininess # None /\ wmat.shininess[1] > 0
         THEN PhongRoughness(wmat.shininess[1])
    ELSE 1000000000

\* material.metallic after the specular heuristic
wf_metallic(wmat) ==
    IF wmat.specular = None THEN MaterialDefaults.metallic
    ELSE IF wmat.illumination_model = 5 THEN 1000000000
    ELSE IF spec_intensity(wmat) > 500000000
         THEN Min(spec_intensity(wmat), 1000000000)
    ELSE MaterialDefaults.metallic

\* material.opacity
wf_opacity(wmat) ==
    IF wmat.illumination_model = 7 THEN 100000000
    ELSE IF wmat.transparency # None THEN wmat.transparency[1]
    ELSE MaterialDefaults.opacity

\* tf_values.get(mat_name, [1.0, 1.0, 1.0])
tf_color(tf, mat_name) == IF mat_name \in DOMAIN tf THEN tf[mat_name] ELSE White

\* material.transmission: the glass layer, or the layer of a transparent
\* material
wf_transmission(wmat, tf) ==
    IF wmat.illumination_model = 7
    THEN LayerInit("TransmissionLayer",
                   [strength |-> 900000000, roughness |-> wf_roughness(wmat),
                    depth |-> 0, color |-> tf_color(tf, wmat.name),
                    texture_index |-> -1]).val
    ELSE IF wmat.transparency # None /\ wf_opacity(wmat) < 990000000
    THEN LayerInit("TransmissionLayer",
                   [strength |-> 1000000000 - wf_opacity(wmat),
                    roughness |-> wf_roughness(wmat),
                    depth |-> 0, color |-> tf_color(tf, wmat.name),
                    texture_index |-> -1]).val
    ELSE None

\* The material of _extract_materials before its textures are looked at
wf_material(wmat, tf) ==
    [Material([name |-> wmat.name]) EXCEPT
        !.base_color =
            IF wmat.illumination_model = 5 /\ wmat.specular # None
            THEN SubSeq(wmat.specular[1], 1, 3)
            ELSE IF wmat.diffuse # None THEN SubSeq(wmat.diffuse[1], 1, 3)
            ELSE @,
        !.metallic = wf_metallic(wmat),
        !.roughness = wf_roughness(wmat),
        !.emission = IF wmat.emissive # None THEN SubSeq(wmat.emissive[1], 1, 3) ELSE @,
        !.opacity = wf_opacity(wmat),
        !.transmission = wf_transmission(wmat, tf),
        !.ior = IF wmat.optical_density # None /\ wmat.optical_density[1] > 1000000000
                THEN wmat.optical_density[1] ELSE @]

\* The directory of the OBJ file, where texture names are looked up
ObjDir == <<47>>

\* WavefrontLoader._resolve_texture_path: the absolute path of a file that
\* exists beside the OBJ file, "" for one that does not
_resolve_texture_path(files, tex_filename) ==
    IF tex_filename \in files THEN ObjDir \o tex_filename ELSE <<>>

\* The position of tex_path in texture_paths, 0 when it is not there
IndexOf(texture_paths, tex_path) ==
    IF \E i \in 1..Len(texture_paths) : texture_paths[i] = tex_path
    THEN CHOOSE i \in 1..Len(texture_paths) : texture_paths[i] = tex_path
    ELSE 0

\* add_texture handing out a new index at every call
add_texture_no_reuse(texture_paths, tex_path) ==
    IF tex_path = <<>> THEN [idx |-> -1, paths |-> texture_paths]
    ELSE [idx |-> Len(texture_paths), paths |-> Append(texture_paths, tex_path)]

\* add_texture of _extract_materials: the index it returns and texture_paths
\* after it; texture_map is the position of each path in texture_paths
add_texture(texture_paths, tex_path) ==
    IF tex_path = <<>> THEN [idx |-> -1, paths |-> texture_paths]
    ELSE IF IndexOf(texture_paths, tex_path) = 0
    THEN [idx |-> Len(texture_paths), paths |-> Append(texture_paths, tex_path)]
    ELSE [idx |-> IndexOf(texture_paths, tex_path) - 1, paths |-> texture_paths]

\* The texture attributes of a pywavefront material and the slots they fill
TextureAttrs == <<"texture", "texture_normal", "texture_metallic", "texture_emission">>

TextureSlotOf ==
    [texture |-> "base_color_texture",
     texture_normal |-> "normal_texture",
     texture_metallic |-> "metallic_roughness_texture",
     texture_emission |-> "emission_texture"]

\* One of the four texture blocks: the base colour slot is assigned only for
\* a path that resolved, the other slots take what add_texture returns
wf_texture(wmat, files, attr, st) ==
    IF wmat[attr] = None THEN st
    ELSE IF attr = "texture" /\ _resolve_texture_path(files, wmat[attr][1]) = <<>> THEN st
    ELSE [material |-> [st.material EXCEPT ![TextureSlotOf[attr]] =
                           PyInt(add_texture(st.paths,
                                    _resolve_texture_path(files, wmat[attr][1])).idx)],
          paths |-> add_texture(st.paths,
                                _resolve_texture_path(files, wmat[attr][1])).paths]

RECURSIVE wf_textures(_, _, _, _)
\* The texture blocks from the k-th on
wf_textures(wmat, files, k, st) ==
    IF k > Len(TextureAttrs) THEN st
    ELSE wf_textures(wmat, files, k + 1, wf_texture(wmat, files, TextureAttrs[k], st))

RECURSIVE wf_materials_loop(_, _, _, _)
\* The loop of _extract_materials over wavefront_scene.materials
wf_materials_loop(wf, tf, files, st) ==
    IF wf = <<>> THEN st
    ELSE wf_materials_loop(Tail(wf), tf, files,
            LET one == wf_textures(Head(wf), files, 1,
                          [material |-> wf_material(Head(wf), tf), paths |-> st.paths])
            IN [materials |-> Append(st.materials, one.material), paths |-> one.paths])

\* The name of the material a loader adds when the file has none
Name_default == <<100, 101, 102, 97, 117, 108, 116>>

\* _extract_materials returning the empty list when the file has no material
_extract_materials_no_default(wf, tf, files) ==
    wf_materials_loop(wf, tf, files, [materials |-> <<>>, paths |-> <<>>])

\* WavefrontLoader._extract_materials: [materials, paths]
_extract_materials(wf, tf, files) ==
    LET st == wf_materials_loop(wf, tf, files, [materials |-> <<>>, paths |-> <<>>])
    IN IF st.materials = <<>>
       THEN [st EXCEPT !.materials = <<Material([name |-> Name_default])>>]
       ELSE st

\* ------------------------------------------------------- scene validation

\* The messages validate_scene logs
LogNoMeshes == "warning: Scene has no meshes"

LogNoMaterials == "warning: Scene has no materials, will use default"

LogInvalidIndex == "error: Mesh references invalid material index"

LogValidationPassed == "info: Scene validation passed"

\* BaseLoader.validate_scene without the loop over the meshes
validate_scene_counts_only(s) ==
    IF s.meshes = <<>> THEN [ret |-> FALSE, scene |-> s, log |-> <<LogNoMeshes>>]
    ELSE IF s.materials = <<>>
    THEN [ret |-> TRUE,
          scene |-> [s EXCEPT !.materials =
                        Append(@, Material([name |-> Name_Default]))],
          log |-> <<LogNoMaterials, LogValidationPassed>>]
    ELSE [ret |-> TRUE, scene |-> s, log |-> <<LogValidationPassed>>]

\* Whether the loop of validate_scene finds no mesh with
\* material_index >= num_materials
indices_valid(meshes, num_materials) ==
    \A i \in 1..Len(meshes) : ~(meshes[i].material_index >= num_materials)

\* BaseLoader.validate_scene on self.scene = s: what it returns, self.scene
\* after it, and what it logged
validate_scene(s) ==
    IF s.meshes = <<>> THEN [ret |-> FALSE, scene |-> s, log |-> <<LogNoMeshes>>]
    ELSE IF s.materials = <<>>
    THEN [ret |-> indices_valid(s.meshes, 1),
          scene |-> [s EXCEPT !.materials =
                        Append(@, Material([name |-> Name_Default]))],
          log |-> <<LogNoMaterials,
                    IF indices_valid(s.meshes, 1) THEN LogValidationPassed
                    ELSE LogInvalidIndex>>]
    ELSE [ret |-> indices_valid(s.meshes, Len(s.materials)),
          scene |-> s,
          log |-> <<IF indices_valid(s.meshes, Len(s.materials))
                    THEN LogValidationPassed ELSE LogInvalidIndex>>]

\* A component of a vertex format
Component(letter, size) == [letter |-> letter, size |-> size]

RECURSIVE _calculate_stride_sum(_)
_calculate_stride_sum(vertex_format) ==
    IF vertex_format = <<>> THEN 0
    ELSE Head(vertex_format).size + _calculate_stride_sum(Tail(vertex_format))

\* WavefrontLoader._calculate_stride: the floats per vertex, 8 when the
\* format names none
_calculate_stride(vertex_format) ==
    IF _calculate_stride_sum(vertex_format) > 0
    THEN _calculate_stride_sum(vertex_format) ELSE 8

RECURSIVE extract_components(_, _, _, _, _)
\* The loop of _extract_vertex over the components, offset floats into the
\* vertex that starts after base_idx floats
extract_components(vertices_flat, base_idx, components, offset, v) ==
    IF components = <<>> THEN v
    ELSE extract_components(vertices_flat, base_idx, Tail(components),
            offset + Head(components).size,
            LET vals == SubSeq(vertices_flat, base_idx + offset + 1,
                               base_idx + offset + Head(components).size)
            IN CASE Head(components).letter = "V" ->
                       [v EXCEPT !.position =
                           IF Head(components).size = 2 THEN vals \o <<0>> ELSE vals]
                 [] Head(components).letter = "N" -> [v EXCEPT !.normal = vals]
                 [] Head(components).letter = "T" -> [v EXCEPT !.texcoord = vals]
                 [] OTHER -> v)

\* WavefrontLoader._extract_vertex
_extract_vertex(vertices_flat, base_idx, vertex_format) ==
    extract_components(vertices_flat, base_idx, vertex_format, 0,
        Vertex(<<0, 0, 0>>, <<0, 0, 1000000000>>, <<0, 0>>, <<1000000000, 0, 0>>))

\* A position in units of 0.5, which the coordinates of the model are
\* multiples of
Halves(position) == [i \in 1..3 |-> position[i] \div 500000000]

\* np.cross(v1 - v0, v2 - v0), in units of 0.25
face_normal(v0, v1, v2) ==
    LET a == [i \in 1..3 |-> Halves(v1)[i] - Halves(v0)[i]]
        b == [i \in 1..3 |-> Halves(v2)[i] - Halves(v0)[i]]
    IN <<a[2] * b[3] - a[3] * b[2], a[3] * b[1] - a[1] * b[3], a[1] * b[2] - a[2] * b[1]>>

RECURSIVE accumulated_normal(_, _, _)
\* The sum of the normals of the triangles from the k-th on that vertex i
\* (counted from 0) belongs to
accumulated_normal(vertices, i, k) ==
    IF k * 3 > Len(vertices) THEN <<0, 0, 0>>
    ELSE LET rest == accumulated_normal(vertices, i, k + 1)
             n == face_normal(vertices[k * 3 - 2].position,
                              vertices[k * 3 - 1].position,
                              vertices[k * 3].position)
         IN IF i \in {k * 3 - 3, k * 3 - 2, k * 3 - 1}
            THEN <<rest[1] + n[1], rest[2] + n[2], rest[3] + n[3]>>
            ELSE rest

Sign(x) == IF x > 0 THEN 1000000000 ELSE IF x < 0 THEN -1000000000 ELSE 0

\* normal / norm for a normal along one axis, [0, 0, 1] for the zero normal
normalized(n) ==
    CASE n = <<0, 0, 0>> -> <<0, 0, 1000000000>>
      [] Cardinality({i \in 1..3 : n[i] # 0}) = 1 -> <<Sign(n[1]), Sign(n[2]), Sign(n[3])>>

\* WavefrontLoader._compute_normals for indices 0..n-1: the vertices beyond
\* the last whole triangle accumulate nothing
_compute_normals(vertices) ==
    [i \in 1..Len(vertices) |->
        [vertices[i] EXCEPT !.normal = normalized(accumulated_normal(vertices, i - 1, 1))]]

\* material_map.get(mesh_name, 0): the index of the last material of that
\* name
material_map_get(materials, mesh_name) ==
    IF \E i \in 1..Len(materials) : materials[i].name = mesh_name
    THEN (CHOOSE i \in 1..Len(materials) :
             /\ materials[i].name = mesh_name
             /\ \A j \in (i + 1)..Len(materials) : materials[j].name # mesh_name) - 1
    ELSE 0

\* The body of the loop of _extract_meshes for a material that has vertices
wf_mesh(materials, mesh_mat) ==
    LET stride == _calculate_stride(mesh_mat.vertex_format)
        num_vertices == Len(mesh_mat.vertices) \div stride
        vertices == [i \in 1..num_vertices |->
                        _extract_vertex(mesh_mat.vertices, (i - 1) * stride,
                                        mesh_mat.vertex_format)]
    IN Mesh([name |-> mesh_mat.name,
             vertices |-> IF \E k \in 1..Len(mesh_mat.vertex_format) :
                                mesh_mat.vertex_format[k].letter = "N"
                          THEN vertices ELSE _compute_normals(vertices),
             indices |-> [i \in 1..num_vertices |-> i - 1],
             material_index |-> material_map_get(materials, mesh_mat.name)])

RECURSIVE _extract_meshes(_, _)
\* WavefrontLoader._extract_meshes
_extract_meshes(wf, materials) ==
    IF wf = <<>> THEN <<>>
    ELSE IF Head(wf).vertices = <<>>
            \/ Len(Head(wf).vertices) \div _calculate_stride(Head(wf).vertex_format) = 0
    THEN _extract_meshes(Tail(wf), materials)
    ELSE <<wf_mesh(materials, Head(wf))>> \o _extract_meshes(Tail(wf), materials)

\* The scene of a loader before it is validated
Extracted(materials, textures, meshes) ==
    [meshes |-> meshes, materials |-> materials, textures |-> textures]

\* What load returns once validate_scene has returned v: the scene, with
\* what validate_scene said, which load does not look at
Validated(v) == [err |-> "", scene |-> v.scene, valid |-> v.ret, log |-> v.log]

\* self.scene of WavefrontLoader.load once _extract_materials has returned m
wf_extracted(wf, m) ==
    Extracted(m.materials, [i \in 1..Len(m.paths) |-> Texture(m.paths[i])],
              _extract_meshes(wf, m.materials))

\* WavefrontLoader.load on an OBJ file that pywavefront parses to src.wf (or
\* rejects): the exception, the scene returned and what validate_scene
\* said, which load does not look at
WavefrontLoader_load(src) ==
    IF ~src.parses
    THEN [err |-> "PywavefrontException", scene |-> SceneData, valid |-> FALSE,
          log |-> <<>>]
    ELSE Validated(validate_scene(
            wf_extracted(src.wf, _extract_materials(src.wf, src.tf, src.files))))

\* ------------------------------------------------------ the Blender loader

\* A step of _extract_principled_bsdf: the exception raised so far ("" for
\* none) and the material
Extracting(material) == [err |-> "", val |-> material]

\* material.<field> = cls(**kwargs), which raises what the constructor raises
SetLayerFrom(r, field, init) ==
    IF init.err # "" THEN [r EXCEPT !.err = init.err]
    ELSE [r EXCEPT !.val = [@ EXCEPT ![field] = init.val]]

\* inputs[key].default_value if key is an input, else other
InputOr(inputs, key, other) == IF key \in DOMAIN inputs THEN inputs[key] ELSE other

\* BlenderLoader._extract_transmission
_extract_transmission(inputs, r) ==
    IF r.err # "" \/ "Transmission" \notin DOMAIN inputs THEN r
    ELSE IF inputs["Transmission"] < 10000000 THEN r
    ELSE SetLayerFrom(r, "transmission",
            LayerInit("TransmissionLayer",
                [strength |-> inputs["Transmission"],
                 roughness |-> InputOr(inputs, "Transmission Roughness", r.val.roughness),
                 depth |-> 0,
                 color |-> r.val.base_color,
                 texture_idx |-> -1]))

\* BlenderLoader._extract_clearcoat
_extract_clearcoat(inputs, r) ==
    IF r.err # "" \/ "Clearcoat" \notin DOMAIN inputs THEN r
    ELSE IF inputs["Clearcoat"] < 10000000 THEN r
    ELSE SetLayerFrom(r, "clearcoat",
            LayerInit("ClearcoatLayer",
                [strength |-> inputs["Clearcoat"],
                 roughness |-> InputOr(inputs, "Clearcoat Roughness", 0),
                 ior |-> 1500000000,
                 texture_idx |-> -1]))

\* BlenderLoader._extract_sheen
_extract_sheen(inputs, r) ==
    IF r.err # "" \/ "Sheen" \notin DOMAIN inputs THEN r
    ELSE IF inputs["Sheen"] < 10000000 THEN r
    ELSE SetLayerFrom(r, "sheen",
            LayerInit("SheenLayer",
                [strength |-> inputs["Sheen"],
                 roughness |-> 0,
                 color |-> InputOr(inputs, "Sheen Tint", White),
                 texture_idx |-> -1]))

\* The strength _extract_subsurface reads: 'Subsurface Weight' before
\* 'Subsurface'
subsurface_strength(inputs) ==
    InputOr(inputs, "Subsurface Weight", InputOr(inputs, "Subsurface", 0))

\* BlenderLoader._extract_subsurface
_extract_subsurface(inputs, r) ==
    IF r.err # "" \/ {"Subsurface", "Subsurface Weight"} \cap DOMAIN inputs = {} THEN r
    ELSE IF subsurface_strength(inputs) < 10000000 THEN r
    ELSE SetLayerFrom(r, "subsurface",
            LayerInit("SubsurfaceLayer",
                [strength |-> subsurface_strength(inputs),
                 radius |-> InputOr(inputs, "Subsurface Radius", White),
                 color |-> InputOr(inputs, "Subsurface Color", r.val.base_color),
                 texture_idx |-> -1]))

\* BlenderLoader._extract_anisotropy
_extract_anisotropy(inputs, r) ==
    IF r.err # "" \/ "Anisotropic" \notin DOMAIN inputs THEN r
    ELSE IF inputs["Anisotropic"] < 10000000 THEN r
    ELSE SetLayerFrom(r, "anisotropy",
            LayerInit("AnisotropyLayer",
                [strength |-> inputs["Anisotropic"],
                 rotation |-> InputOr(inputs, "Anisotropic Rotation", 0),
                 texture_idx |-> -1]))

\* The base properties _extract_principled_bsdf copies from the inputs
bsdf_base(inputs, material) ==
    [material EXCEPT
        !.base_color = IF "Base Color" \in DOMAIN inputs
                       THEN SubSeq(inputs["Base Color"], 1, 3) ELSE @,
        !.metallic = InputOr(inputs, "Metallic", @),
        !.roughness = InputOr(inputs, "Roughness", @),
        !.emission = IF "Emission" \in DOMAIN inputs /\ Len(inputs["Emission"]) >= 3
                     THEN SubSeq(inputs["Emission"], 1, 3) ELSE @,
        !.ior = InputOr(inputs, "IOR", @),
        !.opacity = InputOr(inputs, "Alpha", @)]

\* BlenderLoader._extract_principled_bsdf on the inputs of the Principled
\* BSDF node of a material
_extract_principled_bsdf(inputs, material) ==
    _extract_anisotropy(inputs,
    _extract_subsurface(inputs,
    _extract_sheen(inputs,
    _extract_clearcoat(inputs,
    _extract_transmission(inputs, Extracting(bsdf_base(inputs, material)))))))

\* A material of bpy.data.materials: inputs are those of its Principled BSDF
\* node, None with no such node or with use_nodes off
BlMaterial(name, inputs) == [name |-> name, inputs |-> inputs]

\* The body of the loop of BlenderLoader._extract_materials
bl_material(bmat) ==
    IF bmat.inputs = None THEN Extracting(Material([name |-> bmat.name]))
    ELSE _extract_principled_bsdf(bmat.inputs[1], Material([name |-> bmat.name]))

RECURSIVE bl_materials_loop(_, _), bl_materials_next(_, _, _)
\* The loop of BlenderLoader._extract_materials: the exception that left it,
\* or the materials
bl_materials_loop(bmats, materials) ==
    IF bmats = <<>> THEN [err |-> "", val |-> materials]
    ELSE bl_materials_next(bl_material(Head(bmats)), Tail(bmats), materials)

\* The loop once the material of an iteration is extracted, or the
\* extraction raised
bl_materials_next(b, rest, materials) ==
    IF b.err # "" THEN [err |-> b.err, val |-> materials]
    ELSE bl_materials_loop(rest, Append(materials, b.val))

\* The end of BlenderLoader._extract_materials: a list r.val left empty
\* gets the default material
bl_with_default(r) ==
    IF r.err = "" /\ r.val = <<>>
    THEN [r EXCEPT !.val = <<Material([name |-> Name_default])>>]
    ELSE r

\* BlenderLoader._extract_materials, with the default material of a file
\* that has none; material_map is the position of each name in the list
bl_extract_materials(bmats) == bl_with_default(bl_materials_loop(bmats, <<>>))

\* An object of bpy.data.objects: its type, the name of the material in its
\* first slot (None for no slot), and the loops of its triangulated mesh
BlObject(name, type, material, loops) ==
    [name |-> name, type |-> type, material |-> material, loops |-> loops]

\* BlenderLoader._extract_vertex_data: one vertex and one index per loop
_extract_vertex_data(loops) ==
    [vertices |-> [i \in 1..Len(loops) |->
                      Vertex(loops[i].position, loops[i].normal, loops[i].texcoord,
                             <<1000000000, 0, 0>>)],
     indices |-> [i \in 1..Len(loops) |-> i - 1]]

RECURSIVE bl_extract_meshes(_, _)
\* BlenderLoader._extract_meshes
bl_extract_meshes(objects, materials) ==
    IF objects = <<>> THEN <<>>
    ELSE IF Head(objects).type # "MESH" THEN bl_extract_meshes(Tail(objects), materials)
    ELSE <<Mesh([name |-> Head(objects).name,
                 vertices |-> _extract_vertex_data(Head(objects).loops).vertices,
                 indices |-> _extract_vertex_data(Head(objects).loops).indices,
                 material_index |->
                     IF Head(objects).material = None THEN 0
                     ELSE material_map_get(materials, Head(objects).material[1])])>>
         \o bl_extract_meshes(Tail(objects), materials)

\* BlenderLoader.load once _extract_materials has returned or raised m
bl_loaded(objects, m) ==
    IF m.err # ""
    THEN [err |-> m.err, scene |-> SceneData, valid |-> FALSE, log |-> <<>>]
    ELSE Validated(validate_scene(
            Extracted(m.val, <<>>, bl_extract_meshes(objects, m.val))))

\* BlenderLoader.load on a .blend file that bpy opens (or rejects) and that
\* holds src.bl_materials and src.bl_objects
BlenderLoader_load(src) ==
    IF ~src.parses
    THEN [err |-> "RuntimeError", scene |-> SceneData, valid |-> FALSE, log |-> <<>>]
    ELSE bl_loaded(src.bl_objects, bl_extract_materials(src.bl_materials))

\* ------------------------------------------------------------- load_scene

\* open(output_path, 'ab'): what the file holds stays, writes go after it
open_ab(content) == content

\* open(output_path, 'wb'): the file is created, or emptied when it exists
open_wb(content) == <<>>


\* loader.load() of the class the registry chose
loader_load(loader_class, src) ==
    IF loader_class = "WavefrontLoader" THEN WavefrontLoader_load(src)
    ELSE BlenderLoader_load(src)

\* What load_scene leaves: its return value, the statement it returned
\* from, the bytes at output_file, the scene the loader returned, the
\* exception it caught and what was logged
Returned(ret, at, bytes, s, err, log) ==
    [ret |-> ret, at |-> at, file |-> bytes, scene |-> s, err |-> err, log |-> log]

LogInputNotFound == "error: Input file not found"

LogNoLoader == "error: No loader available for file"

LogFailed == "error: Failed to load scene"

LogCompleted == "info: Scene loading completed successfully"

\* A try block whose except clause reports success
load_scene_try_swallowing(l, out) ==
    IF l.err # ""
    THEN Returned(TRUE, "load", out, l.scene, l.err, l.log \o <<LogFailed>>)
    ELSE Returned(TRUE, IF export(l.scene).err # "" THEN "export" ELSE "done",
                  open_wb(out) \o export(l.scene).out, l.scene,
                  export(l.scene).err, l.log \o <<LogCompleted>>)

\* The try block of load_scene once export has written e.out and
\* returned or raised
load_scene_export(l, out, e) ==
    IF e.err # ""
    THEN Returned(FALSE, "export", open_wb(out) \o e.out, l.scene, e.err,
                  l.log \o <<LogFailed>>)
    ELSE Returned(TRUE, "done", open_wb(out) \o e.out, l.scene, "",
                  l.log \o <<LogCompleted>>)

\* The try block of load_scene once loader.load() returned or raised l
load_scene_try(l, out) ==
    IF l.err # ""
    THEN Returned(FALSE, "load", out, l.scene, l.err, l.log \o <<LogFailed>>)
    ELSE load_scene_export(l, out, export(l.scene))

\* main.load_scene(input_file, output_file) with the registry loaders, on an
\* input src and an output path that holds out
load_scene(src, loaders, out) ==
    IF ~src.exists
    THEN Returned(FALSE, "exists", out, SceneData, "", <<LogInputNotFound>>)
    ELSE IF get_loader(loaders, src.path) = None
    THEN Returned(FALSE, "create_loader", out, SceneData, "", <<LogNoLoader>>)
    ELSE load_scene_try(loader_load(get_loader(loaders, src.path)[1], src), out)

\* ------------------------------------------------------- the state machine

NoResult == [err |-> "", at |-> "none", pos |-> 0, short |-> FALSE, val |-> None]

Items(s) == Len(s.materials) + Len(s.textures) + Len(s.meshes)

Init ==
    /\ scene = SceneData
    /\ file = <<>>
    /\ damage = {}
    /\ result = NoResult
    /\ pc = "build"
    /\ mat = Material([name |-> Name_a])
    /\ flagsOut = None
    /\ byteorder = "little"
    /\ handles = 0
    /\ threads = <<>>
    /\ _loaders = Imported
    /\ source = NoSource
    /\ call = NoCall

\* The loader appends a material to scene.materials
AddMaterial(m) ==
    /\ pc = "build"
    /\ Items(scene) < MaxItems
    /\ scene' = [scene EXCEPT !.materials = Append(@, m)]
    /\ UNCHANGED <<file, damage, result, pc, mat, flagsOut, byteorder, handles, loaderVars>>

AddTexture(t) ==
    /\ pc = "build"
    /\ Items(scene) < MaxItems
    /\ scene' = [scene EXCEPT !.textures = Append(@, t)]
    /\ UNCHANGED <<file, damage, result, pc, mat, flagsOut, byteorder, handles, loaderVars>>

AddMesh(m) ==
    /\ pc = "build"
    /\ Items(scene) < MaxItems
    /\ scene' = [scene EXCEPT !.meshes = Append(@, m)]
    /\ UNCHANGED <<file, damage, result, pc, mat, flagsOut, byteorder, handles, loaderVars>>

\* f = open(...); body; f.close() with no with statement: an exception in
\* the body leaves the file object open
close_after(h, err) == IF err = "" THEN h - 1 ELSE h

\* Leaving the with block of export or load: the file object is closed
\* whether the block ended or raised err
with_exit(h, err) == h - 1

\* export keeping the flags it computed in the layer_flags field of each
\* material
Export_storing_flags ==
    /\ pc = "build"
    /\ LET e == export(scene)
       IN /\ file' = open_wb(file) \o e.out
          /\ pc' = IF e.err = "" THEN "exported" ELSE "export_failed"
          /\ handles' = with_exit(handles + 1, e.err)
    /\ scene' = [scene EXCEPT !.materials =
                    [i \in 1..Len(scene.materials) |->
                        [scene.materials[i] EXCEPT
                            !.layer_flags = ExporterFlags(scene.materials[i])]]]
    /\ UNCHANGED <<damage, result, mat, flagsOut, byteorder, loaderVars>>

\* BinarySceneExporter().export(scene, output_path)
Export ==
    /\ pc = "build"
    /\ LET e == export(scene)
       IN /\ file' = open_wb(file) \o e.out
          /\ pc' = IF e.err = "" THEN "exported" ELSE "export_failed"
          /\ handles' = with_exit(handles + 1, e.err)
    /\ UNCHANGED <<scene, damage, result, mat, flagsOut, byteorder, loaderVars>>

\* The environment: the file is not a scene file
CorruptMagic(b4) ==
    /\ pc = "exported"
    /\ damage \cap {"magic", "truncated", "inflated"} = {}
    /\ file' = Patch(file, 0, b4)
    /\ damage' = damage \cup {"magic"}
    /\ UNCHANGED <<scene, result, pc, mat, flagsOut, byteorder, handles, loaderVars>>

\* The environment: the file is of another version of the format
SetVersion(v) ==
    /\ pc = "exported"
    /\ damage \cap {"version", "truncated", "inflated"} = {}
    /\ file' = Patch(file, 4, pack_I(v).out)
    /\ damage' = damage \cup {"version"}
    /\ UNCHANGED <<scene, result, pc, mat, flagsOut, byteorder, handles, loaderVars>>

\* The environment: the file is cut to its first n bytes.  load reads nothing
\* past a header it rejects, so a file with such a header is cut within it.
Truncate(n) ==
    /\ pc = "exported"
    /\ damage \cap {"truncated", "inflated"} = {}
    /\ damage # {} => n <= HeaderLen
    /\ file' = SubSeq(file, 1, n)
    /\ damage' = damage \cup {"truncated"}
    /\ UNCHANGED <<scene, result, pc, mat, flagsOut, byteorder, handles, loaderVars>>

\* The environment: a count or a length of the file is raised by d
Inflate(off, d) ==
    /\ pc = "exported"
    /\ damage = {}
    /\ file' = Patch(file, off, pack_I(unpack_I(SubSeq(file, off + 1, off + 4)) + d).out)
    /\ damage' = {"inflated"}
    /\ UNCHANGED <<scene, result, pc, mat, flagsOut, byteorder, handles, loaderVars>>

\* BinarySceneImporter().load(file_path)
Load ==
    /\ pc = "exported"
    /\ result' = load(file)
    /\ pc' = "loaded"
    /\ handles' = with_exit(handles + 1, result'.err)
    /\ UNCHANGED <<scene, file, damage, mat, flagsOut, byteorder, loaderVars>>

Next ==
    \/ \E m \in MaterialSet : AddMaterial(m)
    \/ \E t \in TextureSet : AddTexture(t)
    \/ \E m \in MeshSet : AddMesh(m)
    \/ Export
    \/ \E b4 \in BadMagics : CorruptMagic(b4)
    \/ \E v \in OtherVersions : SetVersion(v)
    \/ \E n \in 0..(Len(file) - 1) : Truncate(n)
    \/ \E off \in FieldOffsets(scene), d \in InflateBy : Inflate(off, d)
    \/ Load

Spec == Init /\ [][Next]_vars

\* --------------------------------------- the layer flag calculator alone

\* The caller sets or clears a layer of mat
SetLayer(l, v) ==
    /\ mat' = [mat EXCEPT ![l] = v]
    /\ flagsOut' = None
    /\ UNCHANGED <<scene, file, damage, result, pc, byteorder, handles, loaderVars>>

\* flags = mat.get_layer_flags()
GetLayerFlags ==
    /\ flagsOut' = Some(get_layer_flags(mat))
    /\ UNCHANGED <<scene, file, damage, result, pc, mat, byteorder, handles, loaderVars>>

LayerValues(l) ==
    {None} \cup
    { Some(IF l = "volume" THEN VolumeLayer(x) ELSE [strength |-> x]) : x \in StrengthSet }

NextFlags ==
    \/ \E i \in 1..Len(LayerFields) :
          \E v \in LayerValues(LayerFields[i]) : SetLayer(LayerFields[i], v)
    \/ GetLayerFlags

SpecFlags == Init /\ [][NextFlags]_vars

\* ------------------------------------- the codec called again, on any host

\* Materials in pairs that differ in the presence and in the contents of the
\* layers other than Transmission
CodecMaterials ==
    { Material([name |-> Name_Default]),
      Material([name |-> Name_Default,
                clearcoat |-> Some(ClearcoatLayer(500000000)),
                subsurface |-> Some(SubsurfaceLayer(0)),
                volume |-> Some(VolumeLayer(500000000))]),
      Material([name |-> <<103>>,
                transmission |-> Some(TransmissionLayer(500000000)),
                normal_texture |-> PyInt(7),
                sheen |-> Some(SheenLayer(500000000))]),
      Material([name |-> <<103>>,
                transmission |-> Some(TransmissionLayer(500000000)),
                normal_texture |-> PyInt(7),
                sheen |-> Some(SheenLayer(250000000)),
                iridescence |-> Some(IridescenceLayer(1000000000))]) }

CodecTextures == { Texture(<<116>>) }

\* A triangle of two vertices; a mesh whose material_index is past any
\* materials list of the model; a mesh with the int -1 for material_index
CodecMeshes ==
    { Mesh([name |-> <<113>>,
            vertices |-> <<Vertex(<<0, 500000000, 1000000000>>,
                                  <<0, 0, 1000000000>>,
                                  <<250000000, 500000000>>,
                                  <<1000000000, 0, 0>>),
                           Vertex(<<1500000000, -500000000, 0>>,
                                  <<0, 1000000000, 0>>,
                                  <<1000000000, 250000000>>,
                                  <<0, 0, 0>>)>>,
            indices |-> <<0, 1, 0>>]),
      Mesh([name |-> <<109>>, vertices |-> <<>>, indices |-> <<>>,
            material_index |-> 5]),
      Mesh([name |-> <<110>>, vertices |-> <<>>, indices |-> <<>>,
            material_index |-> -1]) }

\* Where a file is cut: before the magic ends, after the header, before the
\* last byte
CutPoints(bytes) == { 3, HeaderLen, HeaderLen + 4, Len(bytes) - 1 } \cap 0..(Len(bytes) - 1)

InitCodec ==
    /\ scene = SceneData
    /\ file = <<>>
    /\ damage = {}
    /\ result = NoResult
    /\ pc = "build"
    /\ mat = Material([name |-> Name_a])
    /\ flagsOut = None
    /\ byteorder \in {"little", "big"}
    /\ handles = 0
    /\ threads = <<>>
    /\ _loaders = Imported
    /\ source = NoSource
    /\ call = NoCall

\* The caller goes back to the scene after a call, to extend it or to export
\* it once more to the same path; the file stays on disk
Edit ==
    /\ pc \in {"exported", "export_failed", "loaded"}
    /\ damage = {}
    /\ pc' = "build"
    /\ UNCHANGED <<scene, file, damage, result, mat, flagsOut, byteorder, handles, loaderVars>>

\* BinarySceneImporter().load(file_path) before any file was written: open
\* raises and no file object exists
LoadMissing ==
    /\ pc = "build"
    /\ file = <<>>
    /\ result' = [NoResult EXCEPT !.err = "FileNotFoundError", !.at = "open"]
    /\ pc' = "loaded"
    /\ UNCHANGED <<scene, file, damage, mat, flagsOut, byteorder, handles, loaderVars>>

NextCodec ==
    \/ \E m \in CodecMaterials : AddMaterial(m)
    \/ \E t \in CodecTextures : AddTexture(t)
    \/ \E m \in CodecMeshes : AddMesh(m)
    \/ Export
    \/ Edit
    \/ \E b4 \in BadMagics : CorruptMagic(b4)
    \/ \E v \in OtherVersions : SetVersion(v)
    \/ \E n \in CutPoints(file) : Truncate(n)
    \/ Load
    \/ LoadMissing

SpecCodec == InitCodec /\ [][NextCodec]_vars

\* ------------------------------------------------- calls running at once

\* The number of threads that call the codec at the same time
NumThreads == 2

ThreadIds == 1..NumThreads

\* The scenes the threads export: the empty scene, a scene with a material,
\* a texture and a mesh, and a scene whose export raises in the meshes
ThreadScenes ==
    { SceneData,
      [meshes |-> <<Mesh([name |-> <<113>>, vertices |-> <<>>, indices |-> <<>>])>>,
       materials |-> <<Material([name |-> <<103>>,
                                 transmission |-> Some(TransmissionLayer(500000000))])>>,
       textures |-> <<Texture(<<116>>)>>],
      [SceneData EXCEPT !.meshes =
          <<Mesh([name |-> <<110>>, vertices |-> <<>>, indices |-> <<>>,
                  material_index |-> -1])>>] }

\* The cursor of the file object of a load call
Cursor(x) == [pos |-> x.pos, short |-> x.short]

\* A call that has not begun: op is "export" (of scene, to the path that
\* holds file) or "load" (of the path that holds file)
ThreadStart(op, s, bytes) ==
    [op |-> op, scene |-> s, file |-> bytes, pc |-> "start",
     r |-> Cursor(Got(0, FALSE, None)), result |-> NoResult]

\* The scene a section writer of a running export takes from a slot that all
\* running calls share: the call of the highest thread has set it last
call_scene_shared(t) ==
    LET running == { u \in ThreadIds :
                       threads[u].op = "export" /\ threads[u].pc \notin {"start", "done"} }
    IN threads[CHOOSE u \in running : \A w \in running : w <= u].scene

\* The parameter scene of the export call of thread t
call_scene(t) == threads[t].scene

\* What one statement of the with block of export writes
export_section(at, s) ==
    CASE at = "header" -> _write_header
      [] at = "materials" -> _write_materials(s.materials)
      [] at = "textures" -> _write_textures(s.textures)
      [] at = "meshes" -> _write_meshes(s.meshes)

\* The statement after at in export and in load
NextSection(at) ==
    CASE at = "magic" -> "version"
      [] at = "version" -> "materials"
      [] at = "header" -> "materials"
      [] at = "materials" -> "textures"
      [] at = "textures" -> "meshes"
      [] at = "meshes" -> "done"

\* A statement of export wrote w: what it wrote is in the file, and an
\* exception leaves the call
export_wrote(th, w) ==
    [th EXCEPT !.file = @ \o w.out,
               !.pc = IF w.err # "" THEN "done" ELSE NextSection(th.pc),
               !.result = [NoResult EXCEPT !.err = w.err, !.at = th.pc]]

\* The export call of thread t runs its next statement
ExportStep(t) ==
    /\ threads[t].op = "export"
    /\ threads[t].pc # "done"
    /\ threads' = [threads EXCEPT ![t] =
          IF threads[t].pc = "start"
          THEN [threads[t] EXCEPT !.file = open_wb(@), !.pc = "header"]
          ELSE export_wrote(threads[t], export_section(threads[t].pc, call_scene(t)))]
    /\ UNCHANGED <<codecVars, _loaders, source, call>>

\* load raises e in section at
load_raised(th, e, at, x) ==
    [th EXCEPT !.pc = "done", !.r = Cursor(x), !.result = Loaded(e, at, x, None)]

\* The magic or the version of load read x and compares it with expected
load_checked(th, x, expected, e) ==
    IF x.err # "" THEN load_raised(th, x.err, th.pc, x)
    ELSE IF x.val # expected THEN load_raised(th, e, th.pc, x)
    ELSE [th EXCEPT !.pc = NextSection(th.pc), !.r = Cursor(x)]

\* A section reader of load gave x: scene.<section> = x.val, and load
\* returns the scene after the last section
load_assigned(th, x) ==
    IF x.err # "" THEN load_raised(th, x.err, th.pc, x)
    ELSE [th EXCEPT !.scene = [@ EXCEPT ![th.pc] = x.val],
                    !.pc = NextSection(th.pc),
                    !.r = Cursor(x),
                    !.result = IF th.pc = "meshes"
                               THEN Loaded("", "done", x,
                                           Some([th.scene EXCEPT ![th.pc] = x.val]))
                               ELSE @]

\* The next statement of a load call
load_step(th) ==
    CASE th.pc = "start" ->
            [th EXCEPT !.scene = SceneData, !.pc = "magic"]
      [] th.pc = "magic" ->
            load_checked(th, read_magic(th.file), MAGIC,
                         "ValueError: Invalid file format")
      [] th.pc = "version" ->
            load_checked(th, read_I(th.file, th.r.pos, th.r.short), VERSION,
                         "ValueError: Unsupported version")
      [] th.pc = "materials" ->
            load_assigned(th, _read_materials(th.file, th.r.pos, th.r.short))
      [] th.pc = "textures" ->
            load_assigned(th, _read_textures(th.file, th.r.pos, th.r.short))
      [] th.pc = "meshes" ->
            load_assigned(th, _read_meshes(th.file, th.r.pos, th.r.short))

\* The load call of thread t runs its next statement
LoadStep(t) ==
    /\ threads[t].op = "load"
    /\ threads[t].pc # "done"
    /\ threads' = [threads EXCEPT ![t] = load_step(threads[t])]
    /\ UNCHANGED <<codecVars, _loaders, source, call>>

\* Each thread is about to export a scene of its own to a path of its own,
\* or to load a file of its own
InitThreads ==
    /\ scene = SceneData
    /\ file = <<>>
    /\ damage = {}
    /\ result = NoResult
    /\ pc = "build"
    /\ mat = Material([name |-> Name_a])
    /\ flagsOut = None
    /\ byteorder = "little"
    /\ handles = 0
    /\ threads \in [ThreadIds ->
          { ThreadStart("export", s, <<>>) : s \in ThreadScenes }
          \cup { ThreadStart("load", SceneData, export(s).out) : s \in ThreadScenes }]
    /\ _loaders = Imported
    /\ source = NoSource
    /\ call = NoCall

NextThreads == \E t \in ThreadIds : ExportStep(t) \/ LoadStep(t)

SpecThreads == InitThreads /\ [][NextThreads]_vars

\* ------------------------------------------------ validation of any scene

\* loader.validate_scene() on the scene built so far
Validate ==
    /\ pc = "build"
    /\ scene' = validate_scene(scene).scene
    /\ call' = [name |-> "validate_scene", args |-> <<scene>>,
                ret |-> Some(validate_scene(scene).ret),
                log |-> validate_scene(scene).log]
    /\ pc' = "validated"
    /\ UNCHANGED <<file, damage, result, mat, flagsOut, byteorder, handles,
                   threads, _loaders, source>>

\* The caller goes on building the scene it validated
Extend ==
    /\ pc = "validated"
    /\ pc' = "build"
    /\ call' = NoCall
    /\ UNCHANGED <<scene, file, damage, result, mat, flagsOut, byteorder, handles,
                   threads, _loaders, source>>

NextValidate ==
    \/ \E m \in CodecMaterials : AddMaterial(m)
    \/ \E t \in CodecTextures : AddTexture(t)
    \/ \E m \in CodecMeshes : AddMesh(m)
    \/ Validate
    \/ Extend

SpecValidate == Init /\ [][NextValidate]_vars

\* --------------------------------------------------- the loader's inputs

Path_obj == <<109, 46, 111, 98, 106>>

Path_OBJ == <<100, 47, 109, 46, 79, 66, 74>>

Path_blend == <<109, 46, 98, 108, 101, 110, 100>>

Path_fbx == <<109, 46, 102, 98, 120>>

\* An input file of load_scene: whether it exists, whether its parser
\* accepts it, and what the parser delivers (pywavefront: the materials wf,
\* with the Tf lines tf of the MTL file and the files beside the OBJ file;
\* bpy: the materials and the objects)
Source(path, exists, parses) ==
    [path |-> path, exists |-> exists, parses |-> parses,
     wf |-> <<>>, tf |-> <<>>, files |-> {},
     bl_materials |-> <<>>, bl_objects |-> <<>>]

Grey == <<500000000, 500000000, 500000000, 1000000000>>

Tex_t == <<116>>

Tex_u == <<117>>

\* The floats of a vertex in the formats T2F_N3F_V3F, N3F_V3F and V3F
Flat_T2F_N3F_V3F(position) == <<500000000, 250000000, 0, 0, 1000000000>> \o position

Flat_N3F_V3F(position) == <<0, 1000000000, 0>> \o position

Corner_0 == <<0, 0, 0>>

Corner_x == <<1000000000, 0, 0>>

Corner_y == <<0, 1000000000, 0>>

\* Materials as pywavefront delivers them: a material without geometry, a
\* glass material with a triangle, a mirror material with a face of two
\* vertices, a transparent material whose triangle has no normals, and a
\* material whose vertex array is shorter than one vertex
WfMaterialSet ==
    { [WfMaterial(<<97>>) EXCEPT !.diffuse = Some(Grey)],
      [WfMaterial(<<103>>) EXCEPT
          !.illumination_model = 7,
          !.specular = Some(Grey),
          !.shininess = Some(6),
          !.texture = Some(Tex_t),
          !.texture_normal = Some(Tex_t),
          !.vertices = Flat_T2F_N3F_V3F(Corner_0) \o Flat_T2F_N3F_V3F(Corner_x)
                       \o Flat_T2F_N3F_V3F(Corner_y),
          !.vertex_format = <<Component("T", 2), Component("N", 3), Component("V", 3)>>],
      [WfMaterial(<<113>>) EXCEPT
          !.illumination_model = 5,
          !.specular = Some(<<1000000000, 500000000, 500000000, 1000000000>>),
          !.texture = Some(Tex_u),
          !.texture_normal = Some(Tex_u),
          !.texture_emission = Some(Tex_t),
          !.vertices = Flat_N3F_V3F(Corner_0) \o Flat_N3F_V3F(Corner_x),
          !.vertex_format = <<Component("N", 3), Component("V", 3)>>],
      [WfMaterial(<<122>>) EXCEPT
          !.transparency = Some(500000000),
          !.optical_density = Some(1500000000),
          !.texture_metallic = Some(Tex_t),
          !.vertices = Corner_0 \o Corner_x \o Corner_y,
          !.vertex_format = <<Component("V", 3)>>],
      [WfMaterial(<<107>>) EXCEPT
          !.specular = Some(<<1000000000, 500000000, 500000000, 1000000000>>),
          !.shininess = Some(30),
          !.emissive = Some(<<1000000000, 1000000000, 1000000000, 1000000000>>),
          !.vertices = <<0, 0, 0, 0, 1000000000, 0, 0>>,
          !.vertex_format = <<Component("T", 2), Component("N", 3), Component("V", 3)>>] }

\* wavefront_scene.materials: a dict, so no two entries share a name
WfScenes ==
    UNION { { wf \in [1..n -> WfMaterialSet] :
                \A i, j \in 1..n : i # j => wf[i].name # wf[j].name } : n \in 0..MaxItems }

\* The Tf values of the MTL file: none, or one for the glass material
TfSet == { <<>>, [n \in {<<103>>} |-> <<500000000, 500000000, 500000000>>] }

\* The texture files that exist beside the OBJ file
FilesSet == { {}, {Tex_t}, {Tex_t, Tex_u} }

WavefrontSources ==
    { [Source(p, TRUE, TRUE) EXCEPT !.wf = wf, !.tf = tf, !.files = files] :
        p \in {Path_obj, Path_OBJ}, wf \in WfScenes, tf \in TfSet, files \in FilesSet }

\* The inputs of the Principled BSDF node that feed the layers
LayerInputs ==
    {"Transmission", "Clearcoat", "Sheen", "Subsurface", "Subsurface Weight",
     "Anisotropic"}

\* The base inputs of a Principled BSDF node
BaseInputs ==
    [k \in {"Base Color", "Metallic", "Roughness", "Emission", "IOR", "Alpha"} |->
        CASE k = "Base Color" -> Grey
          [] k = "Metallic" -> 1000000000
          [] k = "Roughness" -> 250000000
          [] k = "Emission" -> <<0, 0, 0, 1000000000>>
          [] k = "IOR" -> 1500000000
          [] k = "Alpha" -> 1000000000]

\* The dict of the inputs: the base inputs, and each layer input absent
\* (-1 in choice), 0.005 or 0.5
InputsOf(choice) ==
    [k \in DOMAIN BaseInputs \cup {l \in LayerInputs : choice[l] # -1} |->
        IF k \in DOMAIN BaseInputs THEN BaseInputs[k] ELSE choice[k]]

BlInputsSet == { InputsOf(c) : c \in [LayerInputs -> {-1, 5000000, 500000000}] }

Name_b == <<98>>

\* bpy.data.materials: no material, a material without nodes, a node
\* without inputs, a Transmission input of exactly 0.01, or one of the dicts
BlMaterialsSet ==
    { <<>>,
      <<BlMaterial(Name_b, None)>>,
      <<BlMaterial(Name_b, Some(<<>>))>>,
      <<BlMaterial(Name_b, Some([k \in {"Transmission"} |-> 10000000]))>> }
    \cup { <<BlMaterial(Name_b, Some(inputs))>> : inputs \in BlInputsSet }

Loop(position) ==
    [position |-> position, normal |-> <<0, 0, 1000000000>>, texcoord |-> <<0, 0>>]

\* bpy.data.objects: none, a mesh that uses the material, or an empty and a
\* mesh without a material slot
BlObjectsSet ==
    { <<>>,
      <<BlObject(<<111>>, "MESH", Some(Name_b),
                 <<Loop(Corner_0), Loop(Corner_x), Loop(Corner_y)>>)>>,
      <<BlObject(<<101>>, "EMPTY", None, <<>>),
        BlObject(<<111>>, "MESH", None,
                 <<Loop(Corner_0), Loop(Corner_x), Loop(Corner_y)>>)>> }

BlenderSources ==
    { [Source(Path_blend, TRUE, TRUE) EXCEPT !.bl_materials = m, !.bl_objects = o] :
        m \in BlMaterialsSet, o \in BlObjectsSet }

\* A file that is missing, files their parser rejects, and a file of a
\* format without a loader
OtherSources ==
    { Source(Path_obj, FALSE, FALSE), Source(Path_obj, TRUE, FALSE),
      Source(Path_blend, TRUE, FALSE), Source(Path_fbx, TRUE, TRUE) }

\* What the output path holds before load_scene: no file, or an older file
OldFile == <<1, 2, 3>>

\* What a call of load_scene that returns r leaves
LoadSceneReturns(r) ==
    /\ file' = r.file
    /\ scene' = r.scene
    /\ result' = [NoResult EXCEPT !.err = r.err, !.at = r.at]
    /\ handles' = IF r.at \in {"export", "done"}
                  THEN with_exit(handles + 1, r.err) ELSE handles
    /\ call' = [name |-> "load_scene", args |-> <<source.path, file>>,
                ret |-> Some(r.ret), log |-> r.log]

\* main.load_scene(input_file, output_file)
LoadScene ==
    /\ pc = "build"
    /\ LoadSceneReturns(load_scene(source, _loaders, file))
    /\ pc' = "ran"
    /\ UNCHANGED <<damage, mat, flagsOut, byteorder, threads, _loaders, source>>

\* main.py has imported the loaders, with or without bpy, and is about to
\* call load_scene on an input file
InitPipeline ==
    /\ scene = SceneData
    /\ file \in {<<>>, OldFile}
    /\ damage = {}
    /\ result = NoResult
    /\ pc = "build"
    /\ mat = Material([name |-> Name_a])
    /\ flagsOut = None
    /\ byteorder = "little"
    /\ handles = 0
    /\ threads = <<>>
    /\ _loaders \in {Imported, ImportedWithBpy}
    /\ source \in WavefrontSources \cup BlenderSources \cup OtherSources
    /\ call = NoCall

NextPipeline == LoadScene

SpecPipeline == InitPipeline /\ [][NextPipeline]_vars

\* ---------------------------------------- the texture slots of a material

\* The four slots in the order _write_materials packs them
SlotFields ==
    <<"base_color_texture", "normal_texture", "metallic_roughness_texture",
      "emission_texture">>

\* What a slot can hold, the dataclass checking no type: None, the ints -1
\* and 2, the floats -1.0, 1.5 and -1.5, True, and the str 't'
SlotValues ==
    { PyNone, PyInt(-1), PyInt(2), PyFloat(-1000000000), PyFloat(1500000000),
      PyFloat(-1500000000), PyBool(TRUE), PyText(116) }

\* The caller assigns a texture slot of mat
SetSlot(field, val) ==
    /\ pc = "build"
    /\ mat' = [mat EXCEPT ![field] = val]
    /\ UNCHANGED <<scene, file, damage, result, pc, flagsOut, byteorder, handles, loaderVars>>

\* BinarySceneExporter().export(scene, output_path) of a scene whose one
\* material is mat
ExportMat ==
    /\ pc = "build"
    /\ scene' = [SceneData EXCEPT !.materials = <<mat>>]
    /\ file' = open_wb(file) \o export(scene').out
    /\ pc' = IF export(scene').err = "" THEN "exported" ELSE "export_failed"
    /\ handles' = with_exit(handles + 1, export(scene').err)
    /\ UNCHANGED <<damage, result, mat, flagsOut, byteorder, loaderVars>>

NextSlots ==
    \/ \E i \in 1..Len(SlotFields), val \in SlotValues : SetSlot(SlotFields[i], val)
    \/ ExportMat

SpecSlots == Init /\ [][NextSlots]_vars

\* ------------------------------------------------ the registry on its own

Ext_OBJ == <<46, 79, 66, 74>>

\* The extensions a decorator is given: one, or two in either order
ExtensionLists ==
    { <<e>> : e \in {Ext_obj, Ext_OBJ, Ext_mtl} }
    \cup { <<e, f>> : e, f \in {Ext_obj, Ext_OBJ, Ext_mtl} }

LoaderClasses == {"WavefrontLoader", "BlenderLoader", "OtherLoader"}

\* @LoaderRegistry.register(*extensions) applied to loader_class; the call
\* record keeps the dict the decorator found
Register(extensions, loader_class) ==
    /\ _loaders' = register(_loaders, extensions, loader_class)
    /\ call' = [name |-> "register",
                args |-> <<extensions, loader_class, _loaders>>,
                ret |-> Some(loader_class),
                log |-> register_log(_loaders, extensions, loader_class)]
    /\ UNCHANGED <<codecVars, threads, source>>

\* LoaderRegistry.get_loader(filepath)
GetLoader(filepath) ==
    /\ call' = [name |-> "get_loader",
                args |-> <<filepath>>,
                ret |-> get_loader(_loaders, filepath),
                log |-> IF get_loader(_loaders, filepath) = None
                        THEN <<LogNoLoaderRegistered, LogSupported>> ELSE <<>>]
    /\ UNCHANGED <<codecVars, threads, _loaders, source>>

\* base_loader has been imported and no loader module yet
InitRegistry ==
    /\ scene = SceneData
    /\ file = <<>>
    /\ damage = {}
    /\ result = NoResult
    /\ pc = "build"
    /\ mat = Material([name |-> Name_a])
    /\ flagsOut = None
    /\ byteorder = "little"
    /\ handles = 0
    /\ threads = <<>>
    /\ _loaders = <<>>
    /\ source = NoSource
    /\ call = NoCall

NextRegistry ==
    \/ \E extensions \in ExtensionLists, loader_class \in LoaderClasses :
          Register(extensions, loader_class)
    \/ \E filepath \in {Path_obj, Path_OBJ, Path_blend, Path_fbx} : GetLoader(filepath)

SpecRegistry == InitRegistry /\ [][NextRegistry]_vars

\* ================================================================ claims

\* Near-exact equality of floats: equal once rounded to binary32
FloatEq(x, y) == RoundF32(x) = RoundF32(y)

FloatsEq(xs, ys) ==
    /\ Len(xs) = Len(ys)
    /\ \A i \in 1..Len(xs) : FloatEq(xs[i], ys[i])

\* The data-model invariants a Scene must satisfy before it is encoded
ValidScene(s) ==
    /\ Len(s.materials) >= 1
    /\ \A i \in 1..Len(s.meshes) :
          /\ s.meshes[i].material_index < Len(s.materials)
          /\ \A k \in 1..Len(s.meshes[i].indices) :
                s.meshes[i].indices[k] < Len(s.meshes[i].vertices)

SameBaseFields(m, d) ==
    /\ m.name = d.name
    /\ FloatsEq(m.base_color, d.base_color)
    /\ FloatsEq(m.emission, d.emission)
    /\ FloatEq(m.metallic, d.metallic)
    /\ FloatEq(m.roughness, d.roughness)
    /\ FloatEq(m.ior, d.ior)
    /\ FloatEq(m.opacity, d.opacity)

SameVertex(v, w) ==
    /\ FloatsEq(v.position, w.position)
    /\ FloatsEq(v.normal, w.normal)
    /\ FloatsEq(v.texcoord, w.texcoord)
    /\ FloatsEq(v.tangent, w.tangent)

SameMesh(m, d) ==
    /\ m.name = d.name
    /\ m.material_index = d.material_index
    /\ m.indices = d.indices
    /\ Len(m.vertices) = Len(d.vertices)
    /\ \A k \in 1..Len(m.vertices) : SameVertex(m.vertices[k], d.vertices[k])

SameScene(s, d) ==
    /\ Len(s.materials) = Len(d.materials)
    /\ Len(s.textures) = Len(d.textures)
    /\ Len(s.meshes) = Len(d.meshes)
    /\ \A i \in 1..Len(s.materials) : SameBaseFields(s.materials[i], d.materials[i])
    /\ \A i \in 1..Len(s.textures) : s.textures[i].path = d.textures[i].path
    /\ \A i \in 1..Len(s.meshes) : SameMesh(s.meshes[i], d.meshes[i])

\* load ran on the file exactly as export wrote it
LoadedIntact == pc = "loaded" /\ damage = {}

\* C1: for every Scene that satisfies the data-model invariants, load of the
\* file export wrote returns a Scene with the same counts, the same mesh
\* names, material_index, vertices and indices, the same material base
\* fields and the same texture paths.
C1_RoundTrip ==
    (LoadedIntact /\ ValidScene(scene)) =>
        /\ result.err = ""
        /\ result.val # None
        /\ SameScene(scene, result.val[1])

\* The first byte after material record i in the file export wrote
MaterialEnd(s, i) == MaterialStart(s, i) + Len(MaterialRecord(s.materials[i]).out)

\* C2: reading a material record, the decoder consumes the 2-float block
\* that follows the flags when the Transmission bit is set and nothing more,
\* so that after any material record the cursor is at the first byte of the
\* next material record or of the textures count.
C2_CursorAfterMaterial ==
    (pc = "exported" /\ damage = {}) =>
        \A i \in 1..Len(scene.materials) :
            LET r == read_material(file, MaterialStart(scene, i), FALSE)
            IN r.err = "" /\ r.pos = MaterialEnd(scene, i)

\* The layer_flags field of material record i of the file
WrittenFlags(s, bytes, i) ==
    unpack_I(SubSeq(bytes, FlagsOffset(s, i) + 1, FlagsOffset(s, i) + 4))

\* C3: the layer_flags value the encoder writes into a material record is
\* the mask Material.get_layer_flags gives for that material.
C3_FlagsAreLayerMask ==
    (pc = "exported" /\ damage = {}) =>
        \A i \in 1..Len(scene.materials) :
            WrittenFlags(scene, file, i) = get_layer_flags(scene.materials[i])

\* A layer is active when it is present and its primary field exceeds 0
LayerActive(m, l) ==
    /\ m[l] # None
    /\ (IF l = "volume" THEN m[l][1].density ELSE m[l][1].strength) > 0

\* The number of bytes of material record i after its layer_flags field
ExtensionLen(s, i) == MaterialEnd(s, i) - (FlagsOffset(s, i) + 4)

\* C4: the encoder writes the 2-float Transmission block after a material's
\* layer_flags if and only if the Transmission layer is active; a layer
\* present with strength 0, or absent, gets no block.
C4_BlockIffActive ==
    (pc = "exported" /\ damage = {}) =>
        \A i \in 1..Len(scene.materials) :
            ExtensionLen(scene, i) =
                (IF LayerActive(scene.materials[i], "transmission") THEN 8 ELSE 0)

\* The mask of the last call is right for mat: bit i is set exactly when
\* layer i is active, and no bit above 6 is set.
FlagsCorrect ==
    flagsOut # None =>
        /\ flagsOut[1] >= 0
        /\ flagsOut[1] < 2 ^ Len(LayerFields)
        /\ \A i \in 1..Len(LayerFields) :
              BitSet(flagsOut[1], i - 1) <=> LayerActive(mat, LayerFields[i])

\* C5: get_layer_flags returns a mask in which bit i is set if and only if
\* layer i is present with a primary field above 0, sets no bit above 6, and
\* leaves the Material unchanged.
C5_LayerFlags == []FlagsCorrect /\ [][flagsOut' # None => mat' = mat]_vars

\* get_layer_flags answered for a material whose Transmission layer is
\* active and whose Clearcoat layer is present with strength 0
C5_Witness ==
    /\ flagsOut = Some(2)
    /\ mat.transmission = Some(TransmissionLayer(500000000))
    /\ mat.clearcoat = Some(ClearcoatLayer(0))

\* The magic and the version field a file holds
FileMagic(bytes) == SubSeq(bytes, 1, Min(4, Len(bytes)))

FileVersion(bytes) == unpack_I(SubSeq(bytes, 5, 8))

\* C6: a stream whose first 4 bytes are not "ACGS" fails with the bad-magic
\* error, and one with the right magic and a version field other than
\* VERSION fails with the unsupported-version error; both before any
\* material, texture or mesh is read and with no Scene returned.  The magic
\* is checked before the version.
C6_MagicVersionRejected ==
    pc = "loaded" =>
        /\ FileMagic(file) # MAGIC =>
              /\ result.err = "ValueError: Invalid file format"
              /\ result.at = "magic"
              /\ result.pos <= 4
              /\ result.val = None
        /\ (FileMagic(file) = MAGIC /\ Len(file) >= 8 /\ FileVersion(file) # VERSION) =>
              /\ result.err = "ValueError: Unsupported version"
              /\ result.at = "version"
              /\ result.pos = 8
              /\ result.val = None

\* load rejected, for its magic, a file whose magic and version are both wrong
C6_Witness ==
    /\ pc = "loaded"
    /\ damage = {"magic", "version"}
    /\ FileVersion(file) = 999
    /\ result.err = "ValueError: Invalid file format"

\* C7: any premature end of stream, every strict prefix of an encoded file
\* among them, fails with the error of a truncated stream (struct.error,
\* which a short read raises), distinct from the bad-magic and
\* unsupported-version errors.
C7_PrefixIsTruncated ==
    (pc = "loaded" /\ damage = {"truncated"}) => result.err = "struct.error"

\* C8: the decoder returns no Scene from a stream in which a declared count
\* or length asks for more bytes than remain: when load returns, no read
\* came back short, the file was not cut, and the Scene holds as many
\* materials and textures as the file declares.
C8_NoSilentTruncation ==
    (pc = "loaded" /\ result.err = "") =>
        /\ ~result.short
        /\ "truncated" \notin damage
        /\ result.val # None
        /\ Len(result.val[1].materials) = unpack_I(SubSeq(file, 9, 12))
        /\ Len(result.val[1].materials) = 0 =>
              Len(result.val[1].textures) = unpack_I(SubSeq(file, 13, 16))

\* a path_len raised past the end of the file: the path came back short and
\* load raised at the next read
C8_Witness ==
    /\ pc = "loaded"
    /\ damage = {"inflated"}
    /\ Len(scene.textures) >= 1
    /\ result.short
    /\ result.at = "meshes"
    /\ result.err = "struct.error"

\* The layers other than Transmission
OtherLayers == {"clearcoat", "sheen", "subsurface", "anisotropy", "iridescence", "volume"}

\* C9: a material with an active Transmission layer decodes to a material
\* whose Transmission layer is present with the same strength and whose other
\* layers are absent.
C9_TransmissionSurvives ==
    LoadedIntact =>
        \A i \in 1..Len(scene.materials) :
            LayerActive(scene.materials[i], "transmission") =>
                /\ result.err = ""
                /\ result.val # None
                /\ Len(result.val[1].materials) >= i
                /\ result.val[1].materials[i].transmission # None
                /\ FloatEq(result.val[1].materials[i].transmission[1].strength,
                           scene.materials[i].transmission[1].strength)
                /\ \A l \in OtherLayers : result.val[1].materials[i][l] = None

TextureSlots ==
    {"base_color_texture", "normal_texture", "metallic_roughness_texture",
     "emission_texture"}

\* C10: each of the four texture-slot indices of a decoded material equals
\* the value in the encoded material, the absent sentinel -1 included.
C10_TextureSlotsSurvive ==
    LoadedIntact =>
        \A i \in 1..Len(scene.materials) :
            /\ result.err = ""
            /\ result.val # None
            /\ Len(result.val[1].materials) >= i
            /\ \A t \in TextureSlots :
                  result.val[1].materials[i][t] = scene.materials[i][t]

\* C11: export completes without raising for every Scene of the data model,
\* scenes with out-of-range material_index or texture indices and scenes with
\* no materials, textures or meshes included: no call of export ends in an
\* exception.
C11_EncodingTotal == pc # "export_failed"

\* C12: the file an export call leaves is determined by the Scene alone: it
\* is the same bytes for equal Scenes, whatever the path held before and
\* whatever export and load calls came earlier.
C12_Deterministic ==
    (pc = "exported" /\ damage = {}) => file = export(scene).out

\* export ran a second time, on a Scene equal to the one whose file load had
\* decoded in between
C12_Witness ==
    /\ pc = "exported"
    /\ damage = {}
    /\ result.err = ""
    /\ result.at = "done"
    /\ scene.materials = <<>>
    /\ scene.meshes = <<>>
    /\ Len(scene.textures) = 1
    /\ Len(result.val[1].textures) = 1
    /\ result.val[1].textures[1].path = scene.textures[1].path
    /\ file = export(scene).out

\* The first byte after mesh record i in the file export wrote
MeshEnd(s, i) == MeshStart(s, i) + Len(MeshRecord(s.meshes[i]).out)

\* The 11 floats of a vertex in the order of the format
VertexFloats(v) == v.position \o v.normal \o v.texcoord \o v.tangent

\* C13: for a mesh of N vertices and M indices the file holds, right after
\* vertex_count, N vertices of 44 bytes each (position, normal, texcoord,
\* tangent), then index_count, then M indices of 4 bytes each, and the mesh
\* record ends there: no padding anywhere.
C13_ExactPacking ==
    (pc = "exported" /\ damage = {}) =>
        \A i \in 1..Len(scene.meshes) :
            LET N == Len(scene.meshes[i].vertices)
                M == Len(scene.meshes[i].indices)
                vc == VertexCountOffset(scene, i)
                ic == vc + 4 + 44 * N
            IN /\ unpack_I(SubSeq(file, vc + 1, vc + 4)) = N
               /\ unpack_I(SubSeq(file, ic + 1, ic + 4)) = M
               /\ MeshEnd(scene, i) = ic + 4 + 4 * M
               /\ \A k \in 1..N :
                     FloatsEq(unpack_floats(SubSeq(file, vc + 4 + 44 * (k - 1) + 1,
                                                   vc + 4 + 44 * k)),
                              VertexFloats(scene.meshes[i].vertices[k]))
               /\ unpack_ints(SubSeq(file, ic + 5, ic + 4 + 4 * M), FALSE)
                     = scene.meshes[i].indices

\* a mesh of 2 vertices and 3 indices was written: 88 and 12 bytes
C13_Witness ==
    /\ pc = "exported"
    /\ damage = {}
    /\ \E i \in 1..Len(scene.meshes) :
          /\ Len(scene.meshes[i].vertices) = 2
          /\ Len(scene.meshes[i].indices) = 3
          /\ IndexCountOffset(scene, i) - (VertexCountOffset(scene, i) + 4) = 88
          /\ MeshEnd(scene, i) - (IndexCountOffset(scene, i) + 4) = 12

\* The scene validate_scene leaves when the loader found no material: one
\* default material, nothing else
EmptyScene ==
    [meshes |-> <<>>, materials |-> <<Material([name |-> Name_Default])>>,
     textures |-> <<>>]

\* C14: the file export writes for a Scene of zero meshes, zero textures and
\* one default material is accepted by load, and the Scene load returns has
\* 1 material, 0 textures and 0 meshes.
C14_EmptySceneDecodes ==
    (pc = "loaded" /\ damage = {} /\ scene = EmptyScene /\ file = export(EmptyScene).out) =>
        /\ result.err = ""
        /\ result.val # None
        /\ Len(result.val[1].materials) = 1
        /\ Len(result.val[1].textures) = 0
        /\ Len(result.val[1].meshes) = 0

\* The file is the header, then the materials, the textures and the meshes
\* sections, and in each material record the flags come right after the base
\* fields and the extension block right after the flags
EncoderOrder ==
    (pc = "exported" /\ damage = {}) =>
        /\ SubSeq(file, 1, 4) = MAGIC
        /\ unpack_I(SubSeq(file, 5, 8)) = VERSION
        /\ file = _write_header.out \o _write_materials(scene.materials).out
                   \o _write_textures(scene.textures).out
                   \o _write_meshes(scene.meshes).out
        /\ \A i \in 1..Len(scene.materials) :
              /\ SubSeq(file, FlagsOffset(scene, i) + 1, FlagsOffset(scene, i) + 4)
                    = pack_I(ExporterFlags(scene.materials[i])).out
              /\ SubSeq(file, FlagsOffset(scene, i) + 5, MaterialEnd(scene, i))
                    = TransmissionBlock(scene.materials[i]).out

\* load, given the file export wrote, is past the header and the materials
\* count when it meets the first material record, past the whole textures
\* section when it meets the first mesh record, and at the end of the file
\* with the textures in hand when there are no such records
DecoderOrder ==
    (pc = "loaded" /\ damage = {} /\ file # <<>> /\ file = export(scene).out) =>
        IF Len(scene.materials) >= 1
        THEN result.at = "materials" /\ result.pos = MaterialStart(scene, 1)
        ELSE IF Len(scene.meshes) >= 1
        THEN result.at = "meshes" /\ result.pos = MeshStart(scene, 1)
        ELSE /\ result.at = "done"
             /\ result.pos = Len(file)
             /\ Len(result.val[1].textures) = Len(scene.textures)
             /\ \A i \in 1..Len(scene.textures) :
                   result.val[1].textures[i].path = scene.textures[i].path

\* C15: the encoder writes and the decoder reads the sections in the order
\* header (magic, then version), materials, textures, meshes; in every
\* material record layer_flags is written before the extension block, with
\* nothing between them.
C15_SectionOrder == EncoderOrder /\ DecoderOrder

\* load went through the header, an empty materials section and a textures
\* section of one path, and stopped at the first mesh record
C15_Witness ==
    /\ pc = "loaded"
    /\ damage = {}
    /\ file = export(scene).out
    /\ scene.materials = <<>>
    /\ Len(scene.textures) = 1
    /\ Len(scene.meshes) = 1
    /\ result.at = "meshes"
    /\ result.pos = MeshStart(scene, 1)

\* C16: load checks no index: a complete stream in which a mesh's
\* material_index is at or past the materials count decodes, and the decoded
\* material_index of every mesh is the stored one.
C16_NoSemanticValidation ==
    ( /\ pc = "loaded" /\ damage = {}
      /\ file # <<>> /\ file = export(scene).out
      /\ \E i \in 1..Len(scene.meshes) :
            scene.meshes[i].material_index >= Len(scene.materials) ) =>
        /\ result.err = ""
        /\ result.val # None
        /\ Len(result.val[1].meshes) = Len(scene.meshes)
        /\ \A i \in 1..Len(scene.meshes) :
              result.val[1].meshes[i].material_index = scene.meshes[i].material_index

\* Materials a and b are equal in every field but the layers other than
\* Transmission
DifferOnlyInOtherLayers(a, b) ==
    \A f \in (DOMAIN a) \ OtherLayers : a[f] = b[f]

\* The bytes of material record i of the file
RecordBytes(s, bytes, i) == SubSeq(bytes, MaterialStart(s, i) + 1, MaterialEnd(s, i))

\* C17: the records of two materials that differ only in the presence or
\* the contents of their Clearcoat, Sheen, Subsurface, Anisotropy,
\* Iridescence or Volume layers have the same length and the same bytes
\* outside the 4-byte layer_flags field.
C17_OtherLayersAddNoBytes ==
    (pc = "exported" /\ damage = {}) =>
        \A i, j \in 1..Len(scene.materials) :
            DifferOnlyInOtherLayers(scene.materials[i], scene.materials[j]) =>
                LET ri == RecordBytes(scene, file, i)
                    rj == RecordBytes(scene, file, j)
                    flagsAt == Len(MaterialBase(scene.materials[i]).out)
                IN /\ Len(ri) = Len(rj)
                   /\ SubSeq(ri, 1, flagsAt) = SubSeq(rj, 1, flagsAt)
                   /\ SubSeq(ri, flagsAt + 5, Len(ri)) = SubSeq(rj, flagsAt + 5, Len(rj))

\* two materials were written that differ in their Clearcoat, Subsurface and
\* Volume layers only, and their records differ in the flags
C17_Witness ==
    /\ pc = "exported"
    /\ damage = {}
    /\ Len(scene.materials) = 2
    /\ scene.materials[1] # scene.materials[2]
    /\ scene.materials[1].clearcoat = None
    /\ scene.materials[2].clearcoat # None
    /\ scene.materials[2].volume # None
    /\ DifferOnlyInOtherLayers(scene.materials[1], scene.materials[2])
    /\ WrittenFlags(scene, file, 1) # WrittenFlags(scene, file, 2)
    /\ Len(RecordBytes(scene, file, 1)) = Len(RecordBytes(scene, file, 2))

\* The material_index field of mesh record i of the file
MaterialIndexBytes(s, bytes, i) ==
    SubSeq(bytes, VertexCountOffset(s, i) - 3, VertexCountOffset(s, i))

\* C18: the integers of the file are 4-byte little-endian values whatever
\* the byte order of the host: the version, the three counts, the
\* layer_flags of every material and the material_index of every mesh.
C18_LittleEndianOnAnyHost ==
    (pc = "exported" /\ damage = {}) =>
        /\ SubSeq(file, 5, 8) = LittleEndian(VERSION)
        /\ SubSeq(file, 9, 12) = LittleEndian(Len(scene.materials))
        /\ SubSeq(file, TexturesStart(scene) + 1, TexturesStart(scene) + 4)
              = LittleEndian(Len(scene.textures))
        /\ SubSeq(file, MeshesStart(scene) + 1, MeshesStart(scene) + 4)
              = LittleEndian(Len(scene.meshes))
        /\ \A i \in 1..Len(scene.materials) :
              SubSeq(file, FlagsOffset(scene, i) + 1, FlagsOffset(scene, i) + 4)
                 = LittleEndian(ExporterFlags(scene.materials[i]))
        /\ \A i \in 1..Len(scene.meshes) :
              MaterialIndexBytes(scene, file, i)
                 = LittleEndian(scene.meshes[i].material_index)

\* C19: an export call, whether it returns or raises, leaves every mesh,
\* material (layer_flags and layers included) and texture of the Scene as
\* it was before the call.
C19_SceneUnchanged ==
    [][(pc = "build" /\ pc' \in {"exported", "export_failed"}) => scene' = scene]_vars

\* export raised on a Scene that holds a material with a Transmission
\* layer, whose layer_flags field is still the default
C19_Witness ==
    /\ pc = "export_failed"
    /\ Len(scene.materials) = 1
    /\ scene.materials[1].transmission # None
    /\ scene.materials[1].layer_flags = 0
    /\ Len(scene.meshes) = 1

\* C20: no file object is open once a call of export or load has ended,
\* whether it returned, raised a decode error (bad magic, unsupported
\* version, truncation), or raised an I/O or packing error.
C20_HandlesClosed == handles = 0

\* load raised on a stream cut short, after an export of the same scene
\* had returned, and no file object is open
C20_Witness ==
    /\ pc = "loaded"
    /\ "truncated" \in damage
    /\ result.err = "struct.error"
    /\ result.short
    /\ handles = 0

\* What the call of a thread would leave when it ran alone: export the
\* file and the exception of export(scene), load the result of load(file)
AsIfAlone(th) ==
    IF th.op = "export"
    THEN /\ th.file = export(th.scene).out
         /\ th.result.err = export(th.scene).err
    ELSE th.result = load(th.file)

\* C21: export and load calls of several threads, each on a scene and a path
\* of its own, leave under every interleaving of their statements the files
\* and the decoded scenes that the same calls leave when run one after
\* another.
C21_InterleavingsAgree ==
    \A t \in DOMAIN threads : threads[t].pc = "done" => AsIfAlone(threads[t])

\* An export of a scene with a material and a load that returned a scene
\* have both ended
C21_Witness ==
    /\ threads # <<>>
    /\ \A t \in ThreadIds : threads[t].pc = "done"
    /\ threads[1].op = "export" /\ threads[1].scene.materials # <<>>
    /\ threads[1].file = export(threads[1].scene).out
    /\ threads[2].op = "load" /\ threads[2].result.err = ""

\* C22: when validate_scene returns True the scene has a mesh and a
\* material and every mesh has material_index < len(materials); on a scene
\* with meshes and no materials it appends one material named "Default",
\* and it appends nothing otherwise.
C22_ValidatedSceneIsConsistent ==
    pc = "validated" =>
        LET before == call.args[1]
        IN /\ call.ret = Some(TRUE) =>
                /\ Len(scene.meshes) >= 1
                /\ Len(scene.materials) >= 1
                /\ \A i \in 1..Len(scene.meshes) :
                      scene.meshes[i].material_index < Len(scene.materials)
           /\ scene.materials =
                 IF before.meshes # <<>> /\ before.materials = <<>>
                 THEN <<Material([name |-> Name_Default])>>
                 ELSE before.materials
           /\ scene.meshes = before.meshes /\ scene.textures = before.textures

\* validate_scene returned True for a scene of two meshes and no materials,
\* after it appended the default material
C22_Witness ==
    /\ pc = "validated"
    /\ call.ret = Some(TRUE)
    /\ call.args[1].materials = <<>>
    /\ scene.materials = <<Material([name |-> Name_Default])>>
    /\ Len(scene.meshes) = 2

\* load_scene has run and loader.load() returned a scene
LoadReturned == pc = "ran" /\ result.at \in {"export", "done"}

\* The loader class load_scene has used
LoaderUsed == get_loader(_loaders, source.path)

\* validate_scene has reported the scene of the loader invalid
ReportedInvalid ==
    \E i \in 1..Len(call.log) : call.log[i] \in {LogNoMeshes, LogInvalidIndex}

\* C23: a scene that fails validation is never encoded: when validate_scene
\* reports the scene of the loader invalid, load_scene writes no output file
\* and returns False.
C23_InvalidSceneNotEncoded ==
    (LoadReturned /\ ReportedInvalid) =>
        /\ file = call.args[2]
        /\ call.ret = Some(FALSE)

\* The materials the source file defines, as its parser delivers them
SourceMaterials ==
    IF LoaderUsed = Some("WavefrontLoader") THEN source.wf ELSE source.bl_materials

\* C24: every scene a loader's load() returns has at least one material; for
\* a source file that defines none it holds the one default material of the
\* loader, with or without meshes.
C24_LoadedSceneHasMaterial ==
    LoadReturned =>
        /\ Len(scene.materials) >= 1
        /\ SourceMaterials = <<>> =>
              scene.materials = <<Material([name |-> Name_default])>>

\* An OBJ file without materials and without meshes was loaded
C24_Witness ==
    /\ LoadReturned
    /\ LoaderUsed = Some("WavefrontLoader")
    /\ source.wf = <<>>
    /\ scene.meshes = <<>>
    /\ scene.materials = <<Material([name |-> Name_default])>>

\* C25: every mesh of a scene WavefrontLoader produced has
\* material_index < len(materials), index values below its vertex count, and
\* an index list whose length is a multiple of 3, whatever vertex array the
\* parser delivered.
C25_WavefrontMeshesConsistent ==
    (LoadReturned /\ LoaderUsed = Some("WavefrontLoader")) =>
        \A i \in 1..Len(scene.meshes) :
            /\ scene.meshes[i].material_index < Len(scene.materials)
            /\ \A k \in 1..Len(scene.meshes[i].indices) :
                  scene.meshes[i].indices[k] < Len(scene.meshes[i].vertices)
            /\ Len(scene.meshes[i].indices) % 3 = 0

\* The texture attributes of the i-th source material that name a file
\* which exists
Resolved(i) ==
    { a \in DOMAIN TextureSlotOf :
        source.wf[i][a] # None /\ source.wf[i][a][1] \in source.files }

\* C26: in a scene WavefrontLoader produced each texture slot is -1 or an
\* index into Scene.textures, the texture list has no path twice, slots that
\* reference the same resolved path hold the same index, and a slot whose
\* file does not resolve is -1 and adds no texture.
C26_TextureSlotsConsistent ==
    (LoadReturned /\ LoaderUsed = Some("WavefrontLoader") /\ source.wf # <<>>) =>
        /\ Len(scene.materials) = Len(source.wf)
        /\ \A i \in 1..Len(scene.materials), a \in DOMAIN TextureSlotOf :
              LET slot == scene.materials[i][TextureSlotOf[a]]
              IN /\ slot.tag = "int"
                 /\ slot.v = -1 \/ (slot.v >= 0 /\ slot.v < Len(scene.textures))
                 /\ a \in Resolved(i) =>
                       /\ slot.v >= 0
                       /\ scene.textures[slot.v + 1].path = ObjDir \o source.wf[i][a][1]
                 /\ a \notin Resolved(i) => slot.v = -1
        /\ \A j, k \in 1..Len(scene.textures) :
              scene.textures[j].path = scene.textures[k].path => j = k
        /\ \A j \in 1..Len(scene.textures) :
              \E i \in 1..Len(source.wf) : \E a \in Resolved(i) :
                  scene.textures[j].path = ObjDir \o source.wf[i][a][1]

\* Two materials use the same texture file and get the same index, while a
\* texture whose file is missing left its slot at -1
C26_Witness ==
    /\ LoadReturned /\ LoaderUsed = Some("WavefrontLoader")
    /\ Len(source.wf) = 2
    /\ source.files = {Tex_t}
    /\ scene.materials[1].base_color_texture = PyInt(0)
    /\ scene.materials[2].emission_texture = PyInt(0)
    /\ source.wf[2].texture_normal = Some(Tex_u)
    /\ scene.materials[2].normal_texture = PyInt(-1)
    /\ Len(scene.textures) = 1

\* loader.load() or export raised
Raised ==
    \/ loader_load(LoaderUsed[1], source).err # ""
    \/ export(loader_load(LoaderUsed[1], source).scene).err # ""

InputStrength(inputs, field) ==
    CASE field = "transmission" ->
            IF "Transmission" \in DOMAIN inputs THEN Some(inputs["Transmission"]) ELSE None
      [] field = "clearcoat" ->
            IF "Clearcoat" \in DOMAIN inputs THEN Some(inputs["Clearcoat"]) ELSE None
      [] field = "sheen" ->
            IF "Sheen" \in DOMAIN inputs THEN Some(inputs["Sheen"]) ELSE None
      [] field = "subsurface" ->
            IF {"Subsurface", "Subsurface Weight"} \cap DOMAIN inputs # {}
            THEN Some(subsurface_strength(inputs)) ELSE None
      [] field = "anisotropy" ->
            IF "Anisotropic" \in DOMAIN inputs THEN Some(inputs["Anisotropic"]) ELSE None

BlenderLayers == {"transmission", "clearcoat", "sheen", "subsurface", "anisotropy"}

\* C29: BlenderLoader attaches a Transmission, Clearcoat, Sheen, Subsurface
\* or Anisotropy layer exactly when the Principled BSDF input is >= 0.01 and
\* gives it that input as strength; loading such a material succeeds and
\* every attached layer has strength > 0.
C29_BlenderLayersAttached ==
    ( /\ pc = "ran"
      /\ LoaderUsed = Some("BlenderLoader")
      /\ source.parses
      /\ source.bl_materials # <<>>
      /\ source.bl_materials[1].inputs # None ) =>
        /\ result.err = ""
        /\ call.ret = Some(TRUE)
        /\ Len(scene.materials) = 1
        /\ \A l \in BlenderLayers :
              LET s == InputStrength(source.bl_materials[1].inputs[1], l)
              IN IF s # None /\ s[1] >= 10000000
                 THEN /\ scene.materials[1][l] # None
                      /\ scene.materials[1][l][1].strength = s[1]
                      /\ scene.materials[1][l][1].strength > 0
                 ELSE scene.materials[1][l] = None


\* A code point with an upper-case ASCII letter folded to lower case
FoldCase(c) == IF c \in 65..90 THEN c + 32 ELSE c

\* Two extensions that are the same when compared case-insensitively
SameExtension(a, b) ==
    /\ Len(a) = Len(b)
    /\ \A i \in 1..Len(a) : FoldCase(a[i]) = FoldCase(b[i])

\* The extensions of the register call that was made last
Registered == { call.args[1][i] : i \in 1..Len(call.args[1]) }

\* C27: registering a loader for an extension that already has one is not an
\* error: after a register call each extension of the call, compared
\* case-insensitively, maps to the class of the call, every other extension
\* keeps the class it had, and the decorator returns the class unchanged.
C27_LastRegistrationWins ==
    call.name = "register" =>
        /\ call.ret = Some(call.args[2])
        /\ LogNoLoaderRegistered \notin { call.log[i] : i \in 1..Len(call.log) }
        /\ \A e \in Registered :
              \E k \in DOMAIN _loaders : SameExtension(k, e)
        /\ \A k, l \in DOMAIN _loaders : SameExtension(k, l) => k = l
        /\ DOMAIN call.args[3] \subseteq DOMAIN _loaders
        /\ \A k \in DOMAIN _loaders :
              IF \E e \in Registered : SameExtension(k, e)
              THEN _loaders[k] = call.args[2]
              ELSE k \in DOMAIN call.args[3] /\ _loaders[k] = call.args[3][k]

\* '.OBJ' was registered for another class while '.obj' and '.mtl' had one:
\* '.obj' now maps to the new class and '.mtl' to the old one
C27_Witness ==
    /\ call.name = "register"
    /\ call.args[1] = <<Ext_OBJ>>
    /\ call.args[2] = "OtherLoader"
    /\ call.args[3] = Imported
    /\ call.log = <<LogOverwriting>>
    /\ _loaders[Ext_obj] = "OtherLoader"
    /\ _loaders[Ext_mtl] = "WavefrontLoader"

\* Where the four texture indices of the one material of the file start:
\* after the header, the count, the name and ten floats
SlotsOffset == HeaderLen + 4 + 4 + Len(encode_utf8(mat.name)) + 40

\* The i-th texture index in the file
WrittenSlot(i) == unpack_i(SubSeq(file, SlotsOffset + 4 * (i - 1) + 1, SlotsOffset + 4 * i))

\* w is the integer value of the float x (in units of 1e-9): x without its
\* fraction
IntegerValueOf(w, x) ==
    IF x >= 0
    THEN w * 1000000000 <= x /\ x < w * 1000000000 + 1000000000
    ELSE w * 1000000000 >= x /\ x > w * 1000000000 - 1000000000

\* C30: the encoder writes -1 for a texture slot that holds None, -1 or a
\* value that is no number, and the integer value of the slot otherwise.
C30_SlotsNormalised ==
    (pc = "exported" /\ scene.materials = <<mat>>) =>
        \A i \in 1..Len(SlotFields) :
            /\ mat[SlotFields[i]].tag \in {"None", "str"} => WrittenSlot(i) = -1
            /\ mat[SlotFields[i]] \in {PyInt(-1), PyFloat(-1000000000)} =>
                  WrittenSlot(i) = -1
            /\ mat[SlotFields[i]].tag \in {"int", "bool"} =>
                  WrittenSlot(i) = mat[SlotFields[i]].v
            /\ mat[SlotFields[i]].tag = "float" =>
                  IntegerValueOf(WrittenSlot(i), mat[SlotFields[i]].v)

\* A material with None, 1.5, 't' and 2 in its slots was exported, and the
\* file holds -1, 1, -1 and 2
C30_Witness ==
    /\ pc = "exported"
    /\ scene.materials = <<mat>>
    /\ mat.base_color_texture = PyNone
    /\ mat.normal_texture = PyFloat(1500000000)
    /\ mat.metallic_roughness_texture = PyText(116)
    /\ mat.emission_texture = PyInt(2)
    /\ <<WrittenSlot(1), WrittenSlot(2), WrittenSlot(3), WrittenSlot(4)>> = <<-1, 1, -1, 2>>

====
